---- MODULE Spec2Model ----
(***************************************************************************)
(* Backup / restore subsystem of arctix-cli: the restore engine            *)
(* (restoreService.restoreUserData and its six per-kind helpers), the      *)
(* ObjectIdMapper it uses, and the capture side (collectUserData), over a  *)
(* document store of six collections.                                      *)
(*                                                                         *)
(* ObjectIds are modelled as positive naturals; `new ObjectId()` and the   *)
(* store's insertedId take the next value of the counter nextId, so every  *)
(* minted identifier is fresh.  A snapshot carries the identifiers its     *)
(* records had when they were captured.  Opaque record content is the      *)
(* field `data`.  Strings that the code lower-cases are sequences of       *)
(* one-character strings.                                                  *)
(***************************************************************************)
EXTENDS Integers, Sequences, FiniteSets, TLC

VARIABLES
    db,             \* the document store: one set of records per collection
    nextId,         \* the next ObjectId to be minted
    archive,        \* the BackupData held by the archive entry a request names
    backupData,     \* restoreUserData's backupData
    targetUserId,   \* restoreUserData's targetUserId
    mode,           \* restoreUserData's mode
    pc,             \* where restoreUserData is: "idle", "deleting", a kind, "done"
    idx,            \* index of the next record of the current kind
    mapper,         \* ObjectIdMapper.mappings
    emailToIdMap,   \* restoreClients' emailToIdMap / clientMappings
    result,         \* the RestoreResult under construction
    placed,         \* history: per kind and snapshot index, the live id used
    before,         \* history: db when the current restore began
    prev,           \* history: inputs, result and db of the previous restore
    runs,           \* history: restores started
    failures,       \* history: store failures injected
    requested,      \* restore route: the mode field of the last request body
    status,         \* restore route: the status of the response to the last
                    \* request, 0 while there is none
    body,           \* restore route: the body of that response
    refused,        \* history: why the last request got no restore result
    files,          \* the entries of BACKUP_DIR
    caller,         \* listUserBackups' / cleanupOldBackups' userId
    keepCount,      \* cleanupOldBackups' keepCount
    lpc,            \* where the archive operation is: "idle", "scanning",
                    \* "listed", "deleting", "swept"
    op,             \* the archive operation: "list" or "cleanup"
    backupFiles,    \* listUserBackups' backupFiles
    li,             \* index of the next entry of the loop in progress
    backups,        \* listUserBackups' backups
    deletedCount,   \* cleanupOldBackups' deletedCount
    listed,         \* history: files as the operation's readdir found them
                    \* (nothing when readdir failed)
    unlinked,       \* history: filenames the operation tried to delete
    missed,         \* history: filenames whose stat failed
    mishaps,        \* history: failures and concurrent changes injected
    cpc,            \* where createBackupFile is: "idle", "fetching", "captured",
                    \* "written", "read" (the entry has been read back)
    capturing,      \* createBackupFile's userId
    fetched,        \* per fetch of collectUserData's Promise.all: whether it
                    \* has resolved, and with what
    captured,       \* createBackupFile's backupData
    compressed,     \* the bytes createBackupFile wrote
    parsed,         \* what readBackupFile returned for them
    writes,         \* history: writes of other requests during the fetches
    other           \* the restore request that is not running now: what the
                    \* variables of the running one would hold for it

\* the restore route's own state
routeVars == <<requested, status, body, refused>>

\* the archive directory and the operation that works on it
dirVars == <<files, caller, keepCount, lpc, op, backupFiles, li, backups, deletedCount,
             listed, unlinked, missed, mishaps>>

\* a capture in progress
captureVars == <<cpc, capturing, fetched, captured, compressed, parsed, writes>>

\* what the restore engine and the archive operations leave alone
sideVars == <<captureVars, other>>

vars == <<db, nextId, archive, backupData, targetUserId, mode, pc, idx, mapper,
          emailToIdMap, result, placed, before, prev, runs, failures,
          routeVars, dirVars, sideVars>>

\* the store and the restore in progress
restoreVars == <<db, nextId, archive, backupData, targetUserId, mode, pc, idx, mapper,
                 emailToIdMap, result, placed, before, prev, runs, failures>>

-----------------------------------------------------------------------------
(* Bounds of the model *)

MaxRuns == 2
MaxFailures == 1
MaxClients == 2
MaxInvoices == 3
MaxDocuments == 2

-----------------------------------------------------------------------------
(* Values *)

Owners == {"u1", "u2"}

\* `undefined` for an optional ObjectId (falsy)
NoId == 0

\* `undefined` / "" for an optional string (falsy)
NoEmail == <<>>

\* the owner whose restore requests are followed; the other owner's records
\* are in the store and in archives
Callers == {"u1"}

Modes == {"merge", "replace"}

\* restore calls that take the documents before the invoices
KindOrderDocumentsFirst ==
    <<"clients", "documents", "invoices", "statements", "preferences", "defaults">>

\* the order of the six restore calls in restoreUserData
KindOrder == <<"clients", "invoices", "statements", "documents", "preferences", "defaults">>

Kinds == {KindOrder[i] : i \in DOMAIN KindOrder}

LowerChar(c) ==
    CASE c = "A" -> "a"
      [] c = "B" -> "b"
      [] OTHER -> c

\* String.prototype.toLowerCase
ToLowerCase(s) == [i \in DOMAIN s |-> LowerChar(s[i])]

-----------------------------------------------------------------------------
(* Collections held in a snapshot, as restoreUserData passes them on *)

Records(bd, kind) ==
    CASE kind = "clients" -> bd.data.clients
      [] kind = "invoices" -> bd.data.invoices
      [] kind = "statements" -> bd.data.statements
      [] kind = "documents" -> bd.data.documents
      [] kind = "preferences" -> bd.data.preferences
      [] kind = "defaults" -> bd.data.defaults

EmptyDb ==
    [clients |-> {}, invoices |-> {}, documents |-> {}, statements |-> {},
     userPreferences |-> {}, userDefaults |-> {}]

\* a set that keeps the new entry alone
MapSetForgetsOthers(m, k, v) == [x \in {k} |-> v]

\* Map.prototype.set on a map kept as a function
MapSet(m, k, v) == [x \in DOMAIN m \cup {k} |-> IF x = k THEN v ELSE m[x]]

\* Map.prototype.get, undefined when the key is absent
MapGet(m, k) == IF k \in DOMAIN m THEN m[k] ELSE NoId

\* an ObjectIdMapper.get that hands an unmapped identifier back as it is
MapperGetPassesThrough(m, oldId, fresh) ==
    IF oldId \in DOMAIN m /\ m[oldId] # NoId THEN <<m[oldId], 0>> ELSE <<oldId, 0>>

\* an ObjectIdMapper.get that never finds a mapping
MapperGetAlwaysMints(m, oldId, fresh) == <<fresh, 1>>

\* ObjectIdMapper.get: <<the identifier returned, the ObjectIds minted>>
MapperGet(m, oldId, fresh) ==
    IF oldId = NoId THEN <<fresh, 1>>
    ELSE IF oldId \in DOMAIN m /\ m[oldId] # NoId THEN <<m[oldId], 0>>
    ELSE <<fresh, 1>>

\* ObjectIdMapper.has
MapperHas(m, oldId) == oldId \in DOMAIN m

\* the RestoreResult restoreUserData starts from
InitialResult ==
    [success |-> TRUE,
     restored |-> [clients |-> 0, invoices |-> 0, documents |-> 0,
                   statements |-> 0, preferences |-> 0, defaults |-> 0],
     skipped |-> [clients |-> 0, invoices |-> 0, documents |-> 0, statements |-> 0],
     errors |-> <<>>]

\* result.restored.<kind>++
Restored(r, kind) == [r EXCEPT !.restored[kind] = @ + 1]

\* a skip that is counted as a restore as well
SkippedAndRestored(r, kind) ==
    [r EXCEPT !.skipped[kind] = @ + 1, !.restored[kind] = @ + 1]

\* result.skipped.<kind>++
Skipped(r, kind) == [r EXCEPT !.skipped[kind] = @ + 1]

\* a result.errors.push that records the message twice
FailedLogsTwice(r, what) == [r EXCEPT !.errors = Append(Append(@, what), what)]

\* a result.errors.push that also gives up the success flag
FailedFlipsSuccess(r, what) == [r EXCEPT !.errors = Append(@, what), !.success = FALSE]

\* result.errors.push(...)
Failed(r, what) == [r EXCEPT !.errors = Append(@, what)]

\* the first restore call at or after position k of KindOrder that has a record
\* to process; "done" when restoreUserData returns
RECURSIVE FirstFrom(_, _)
FirstFrom(bd, k) ==
    IF k > Len(KindOrder) THEN "done"
    ELSE IF Len(Records(bd, KindOrder[k])) > 0 THEN KindOrder[k]
    ELSE FirstFrom(bd, k + 1)

KindIndex(kind) == CHOOSE i \in DOMAIN KindOrder : KindOrder[i] = kind

\* the position after record i of `kind` has been processed
AdvancePc(kind, i) ==
    IF i < Len(Records(backupData, kind)) THEN kind
    ELSE FirstFrom(backupData, KindIndex(kind) + 1)

AdvanceIdx(kind, i) == IF i < Len(Records(backupData, kind)) THEN i + 1 ELSE 1

\* whether the store may fail at this point
Throws == IF failures < MaxFailures THEN BOOLEAN ELSE {FALSE}

NoPlaced(bd) == [k \in Kinds |-> [i \in 1..Len(Records(bd, k)) |-> NoId]]

NoPrev ==
    [valid |-> FALSE, backupData |-> <<>>, targetUserId |-> "", mode |-> "",
     result |-> InitialResult, db |-> EmptyDb, before |-> EmptyDb, failures |-> 0]

-----------------------------------------------------------------------------
(* The records the restore helpers write *)

\* lines 524-530: newClient
NewClient(client, id, owner) ==
    [id |-> id, userId |-> owner, email |-> client.email, data |-> client.data]

\* lines 580-586: newInvoice
NewInvoice(invoice, id, owner) ==
    [id |-> id, userId |-> owner, invoiceNumber |-> invoice.invoiceNumber,
     data |-> invoice.data]

\* a newClientId that looks the statement's email up as captured
NewClientIdAsCaptured(statement, clientEmailMap) ==
    IF statement.clientId # NoId /\ statement.clientEmail # NoEmail
    THEN MapGet(clientEmailMap, statement.clientEmail)
    ELSE NoId

\* lines 616-621: newClientId
NewClientId(statement, clientEmailMap) ==
    IF statement.clientId # NoId /\ ToLowerCase(statement.clientEmail) # NoEmail
    THEN MapGet(clientEmailMap, ToLowerCase(statement.clientEmail))
    ELSE NoId

\* lines 613-630: newStatement
NewStatement(statement, id, owner, newClientId) ==
    [id |-> id, userId |-> owner, clientId |-> newClientId,
     clientEmail |-> statement.clientEmail, data |-> statement.data]

\* a newDocument that spreads the snapshot's uploadedBy over the target
NewDocumentKeepsUploader(document, id, owner, newInvoiceId, newParentDocumentId) ==
    [id |-> id, userId |-> owner, invoiceId |-> newInvoiceId,
     parentDocumentId |-> newParentDocumentId, uploadedBy |-> document.uploadedBy,
     data |-> document.data]

\* lines 655-670: newDocument
NewDocument(document, id, owner, newInvoiceId, newParentDocumentId) ==
    [id |-> id, userId |-> owner, invoiceId |-> newInvoiceId,
     parentDocumentId |-> newParentDocumentId, uploadedBy |-> owner,
     data |-> document.data]

\* lines 703-709: newPreferences
NewPreferences(preferences, id, owner) ==
    [id |-> id, userId |-> owner, data |-> preferences.data]

\* lines 762-767: newDefault
NewDefault(defaultItem, id, owner) ==
    [id |-> id, userId |-> owner, name |-> defaultItem.name, data |-> defaultItem.data]

\* an updateOne that sets nothing
UpdatedDefaultUntouched(existing, defaultItem) == existing

\* lines 748-756: the existing default after updateOne's $set of defaultData
UpdatedDefault(existing, defaultItem) ==
    [existing EXCEPT !.name = defaultItem.name, !.data = defaultItem.data]

-----------------------------------------------------------------------------
(* restoreUserData *)

\* a response that carries no restore result
NoBody == [key |-> "error", result |-> <<>>]

\* a restore route that answers 500 as soon as the result lists an error
AnswerStrict ==
    /\ status' = IF pc' # "done" THEN 0
                 ELSE IF ~result'.success \/ result'.errors # <<>> THEN 500 ELSE 200
    /\ body' = IF pc' # "done" THEN NoBody
               ELSE [key |-> IF ~result'.success \/ result'.errors # <<>>
                             THEN "error" ELSE "message",
                     result |-> <<result'>>]

\* restore route lines 78-94, when restoreUserData has returned: 500 with
\* the result beside "error" when success is false, else 200 with the result
\* beside "message"; no response while the restore is in progress
Answer ==
    /\ status' = IF pc' # "done" THEN 0 ELSE IF ~result'.success THEN 500 ELSE 200
    /\ body' = IF pc' # "done" THEN NoBody
               ELSE [key |-> IF ~result'.success THEN "error" ELSE "message",
                     result |-> <<result'>>]

\* the route's state after a step of the restore it awaits
Respond ==
    /\ UNCHANGED <<requested, refused>>
    /\ Answer

\* restore route lines 68-76 and restoreUserData lines 381-419: the archive is
\* read, and the call starts with a fresh mapper and result.  A request that
\* follows another repeats its target and mode.
StartRestore(t, m) ==
    /\ pc \in {"idle", "done"}
    /\ UNCHANGED <<dirVars, sideVars>>
    /\ runs < MaxRuns
    /\ runs > 0 => t = targetUserId /\ m = mode
    /\ targetUserId' = t
    /\ mode' = m
    /\ mapper' = <<>>
    /\ emailToIdMap' = <<>>
    /\ result' = InitialResult
    /\ backupData' = archive
    /\ placed' = NoPlaced(archive)
    /\ before' = db
    /\ prev' = IF pc = "done"
               THEN [valid |-> TRUE, backupData |-> backupData,
                     targetUserId |-> targetUserId, mode |-> mode,
                     result |-> result, db |-> db, before |-> before,
                     failures |-> failures]
               ELSE prev
    /\ runs' = runs + 1
    /\ pc' = IF m = "replace" THEN "deleting" ELSE FirstFrom(archive, 1)
    /\ idx' = 1
    /\ UNCHANGED <<db, nextId, archive, failures>>

\* a deleteMany whose filter matches the owner of the snapshot's records
\* instead of the target
DeleteManyOfSnapshotOwner(coll, owner) ==
    {r \in coll : r.userId # backupData.metadata.userId}

\* deleteMany({ userId: targetUserIdObj }) on one collection
DeleteMany(coll, owner) == {r \in coll : r.userId # owner}

Collections == {"clients", "invoices", "documents", "statements", "userPreferences", "userDefaults"}

\* a replace mode that leaves the target's defaults in place
DeleteExistingKeepsDefaults ==
    /\ pc = "deleting"
    /\ UNCHANGED <<dirVars, sideVars>>
    /\ \E failing \in SUBSET Collections :
        /\ Cardinality(failing) <= MaxFailures - failures
        /\ db' = [c \in Collections |->
                    IF c \in failing \/ c = "userDefaults" THEN db[c]
                    ELSE DeleteMany(db[c], targetUserId)]
        /\ failures' = failures + Cardinality(failing)
        /\ IF failing = {}
           THEN /\ pc' = FirstFrom(backupData, 1)
                /\ result' = result
           ELSE /\ pc' = "done"
                /\ result' = [Failed(result, "top") EXCEPT !.success = FALSE]
    /\ idx' = 1
    /\ UNCHANGED <<nextId, archive, backupData, targetUserId, mode, mapper,
                   emailToIdMap, placed, before, prev, runs>>
    /\ Respond

\* a replace mode that records the failure of its deletion and goes on to
\* restore the snapshot
DeleteExistingGoesOn ==
    /\ pc = "deleting"
    /\ UNCHANGED <<dirVars, sideVars>>
    /\ \E failing \in SUBSET Collections :
        /\ Cardinality(failing) <= MaxFailures - failures
        /\ db' = [c \in Collections |->
                    IF c \in failing THEN db[c] ELSE DeleteMany(db[c], targetUserId)]
        /\ failures' = failures + Cardinality(failing)
        /\ pc' = FirstFrom(backupData, 1)
        /\ IF failing = {}
           THEN result' = result
           ELSE result' = [Failed(result, "top") EXCEPT !.success = FALSE]
    /\ idx' = 1
    /\ UNCHANGED <<nextId, archive, backupData, targetUserId, mode, mapper,
                   emailToIdMap, placed, before, prev, runs>>
    /\ Respond

\* lines 410-419 and 480-483: the six deleteMany calls of replace mode run
\* under Promise.all; those in `failing` reject, the others complete, and a
\* rejection is caught at the top level
DeleteExisting ==
    /\ pc = "deleting"
    /\ UNCHANGED <<dirVars, sideVars>>
    /\ \E failing \in SUBSET Collections :
        /\ Cardinality(failing) <= MaxFailures - failures
        /\ db' = [c \in Collections |->
                    IF c \in failing THEN db[c] ELSE DeleteMany(db[c], targetUserId)]
        /\ failures' = failures + Cardinality(failing)
        /\ IF failing = {}
           THEN /\ pc' = FirstFrom(backupData, 1)
                /\ result' = result
           ELSE /\ pc' = "done"
                /\ result' = [Failed(result, "top") EXCEPT !.success = FALSE]
    /\ idx' = 1
    /\ UNCHANGED <<nextId, archive, backupData, targetUserId, mode, mapper,
                   emailToIdMap, placed, before, prev, runs>>
    /\ Respond

\* a restoreClients that, in merge mode, overwrites the client it finds with
\* the snapshot's, as restoreDefaults does
RestoreClientUpdatesExisting ==
    /\ pc = "clients"
    /\ UNCHANGED <<dirVars, sideVars>>
    /\ LET client == backupData.data.clients[idx]
           oldId == client.id
           clientEmail == ToLowerCase(client.email)
           matches == IF mode = "merge"
                      THEN {c \in db.clients :
                              c.userId = targetUserId /\ c.email = clientEmail}
                      ELSE {}
           newClient == NewClient(client, nextId, targetUserId)
       IN \E throws \in Throws :
          IF throws
          THEN /\ result' = Failed(result, "client")
               /\ failures' = failures + 1
               /\ UNCHANGED <<db, nextId, mapper, emailToIdMap, placed>>
          ELSE IF matches # {}
          THEN \E existing \in matches :
               /\ emailToIdMap' = MapSet(emailToIdMap, clientEmail, existing.id)
               /\ mapper' = MapSet(mapper, oldId, existing.id)
               /\ result' = Skipped(result, "clients")
               /\ placed' = [placed EXCEPT !.clients[idx] = existing.id]
               /\ db' = [db EXCEPT !.clients = (@ \ {existing}) \cup
                            {NewClient(client, existing.id, targetUserId)}]
               /\ UNCHANGED <<nextId, failures>>
          ELSE /\ db' = [db EXCEPT !.clients = @ \cup {newClient}]
               /\ nextId' = nextId + 1
               /\ emailToIdMap' = MapSet(emailToIdMap, clientEmail, nextId)
               /\ mapper' = MapSet(mapper, oldId, nextId)
               /\ result' = Restored(result, "clients")
               /\ placed' = [placed EXCEPT !.clients[idx] = nextId]
               /\ UNCHANGED failures
    /\ pc' = AdvancePc("clients", idx)
    /\ idx' = AdvanceIdx("clients", idx)
    /\ UNCHANGED <<archive, backupData, targetUserId, mode, before, prev, runs>>
    /\ Respond

\* lines 491-544: one iteration of restoreClients' loop
RestoreClient ==
    /\ pc = "clients"
    /\ UNCHANGED <<dirVars, sideVars>>
    /\ LET client == backupData.data.clients[idx]
           oldId == client.id
           clientEmail == ToLowerCase(client.email)
           matches == IF mode = "merge"
                      THEN {c \in db.clients :
                              c.userId = targetUserId /\ c.email = clientEmail}
                      ELSE {}
           newClient == NewClient(client, nextId, targetUserId)
       IN \E throws \in Throws :
          IF throws
          THEN /\ result' = Failed(result, "client")
               /\ failures' = failures + 1
               /\ UNCHANGED <<db, nextId, mapper, emailToIdMap, placed>>
          ELSE IF matches # {}
          THEN \E existing \in matches :
               /\ emailToIdMap' = MapSet(emailToIdMap, clientEmail, existing.id)
               /\ mapper' = MapSet(mapper, oldId, existing.id)
               /\ result' = Skipped(result, "clients")
               /\ placed' = [placed EXCEPT !.clients[idx] = existing.id]
               /\ UNCHANGED <<db, nextId, failures>>
          ELSE /\ db' = [db EXCEPT !.clients = @ \cup {newClient}]
               /\ nextId' = nextId + 1
               /\ emailToIdMap' = MapSet(emailToIdMap, clientEmail, nextId)
               /\ mapper' = MapSet(mapper, oldId, nextId)
               /\ result' = Restored(result, "clients")
               /\ placed' = [placed EXCEPT !.clients[idx] = nextId]
               /\ UNCHANGED failures
    /\ pc' = AdvancePc("clients", idx)
    /\ idx' = AdvanceIdx("clients", idx)
    /\ UNCHANGED <<archive, backupData, targetUserId, mode, before, prev, runs>>
    /\ Respond

\* a restoreInvoices whose lookup matches the number under any owner
RestoreInvoiceMatchesAnyOwner ==
    /\ pc = "invoices"
    /\ UNCHANGED <<dirVars, sideVars>>
    /\ LET invoice == backupData.data.invoices[idx]
           oldId == invoice.id
           invoiceNumber == invoice.invoiceNumber
           matches == IF mode = "merge" /\ invoiceNumber # ""
                      THEN {v \in db.invoices : v.invoiceNumber = invoiceNumber}
                      ELSE {}
           newInvoice == NewInvoice(invoice, nextId, targetUserId)
       IN \E throws \in Throws :
          IF throws
          THEN /\ result' = Failed(result, "invoice")
               /\ failures' = failures + 1
               /\ UNCHANGED <<db, nextId, mapper, placed>>
          ELSE IF matches # {}
          THEN \E existing \in matches :
               /\ mapper' = MapSet(mapper, oldId, existing.id)
               /\ result' = Skipped(result, "invoices")
               /\ placed' = [placed EXCEPT !.invoices[idx] = existing.id]
               /\ UNCHANGED <<db, nextId, failures>>
          ELSE /\ db' = [db EXCEPT !.invoices = @ \cup {newInvoice}]
               /\ nextId' = nextId + 1
               /\ mapper' = MapSet(mapper, oldId, nextId)
               /\ result' = Restored(result, "invoices")
               /\ placed' = [placed EXCEPT !.invoices[idx] = nextId]
               /\ UNCHANGED failures
    /\ pc' = AdvancePc("invoices", idx)
    /\ idx' = AdvanceIdx("invoices", idx)
    /\ UNCHANGED <<archive, backupData, targetUserId, mode, emailToIdMap, before, prev, runs>>
    /\ Respond


\* lines 549-595: one iteration of restoreInvoices' loop
RestoreInvoice ==
    /\ pc = "invoices"
    /\ UNCHANGED <<dirVars, sideVars>>
    /\ LET invoice == backupData.data.invoices[idx]
           oldId == invoice.id
           invoiceNumber == invoice.invoiceNumber
           matches == IF mode = "merge" /\ invoiceNumber # ""
                      THEN {v \in db.invoices :
                              v.userId = targetUserId /\ v.invoiceNumber = invoiceNumber}
                      ELSE {}
           newInvoice == NewInvoice(invoice, nextId, targetUserId)
       IN \E throws \in Throws :
          IF throws
          THEN /\ result' = Failed(result, "invoice")
               /\ failures' = failures + 1
               /\ UNCHANGED <<db, nextId, mapper, placed>>
          ELSE IF matches # {}
          THEN \E existing \in matches :
               /\ mapper' = MapSet(mapper, oldId, existing.id)
               /\ result' = Skipped(result, "invoices")
               /\ placed' = [placed EXCEPT !.invoices[idx] = existing.id]
               /\ UNCHANGED <<db, nextId, failures>>
          ELSE /\ db' = [db EXCEPT !.invoices = @ \cup {newInvoice}]
               /\ nextId' = nextId + 1
               /\ mapper' = MapSet(mapper, oldId, nextId)
               /\ result' = Restored(result, "invoices")
               /\ placed' = [placed EXCEPT !.invoices[idx] = nextId]
               /\ UNCHANGED failures
    /\ pc' = AdvancePc("invoices", idx)
    /\ idx' = AdvanceIdx("invoices", idx)
    /\ UNCHANGED <<archive, backupData, targetUserId, mode, emailToIdMap, before, prev, runs>>
    /\ Respond

\* a restoreStatements that, in merge mode, skips a statement the target
\* already holds
RestoreStatementDeduplicated ==
    /\ pc = "statements"
    /\ UNCHANGED <<dirVars, sideVars>>
    /\ LET statement == backupData.data.statements[idx]
           newClientId == NewClientId(statement, emailToIdMap)
           newStatement == NewStatement(statement, nextId, targetUserId, newClientId)
           matches == IF mode = "merge"
                      THEN {x \in db.statements :
                              x.userId = targetUserId /\ x.data = statement.data}
                      ELSE {}
       IN \E throws \in Throws :
          IF throws
          THEN /\ result' = Failed(result, "statement")
               /\ failures' = failures + 1
               /\ UNCHANGED <<db, nextId, placed>>
          ELSE IF matches # {}
          THEN /\ result' = Skipped(result, "statements")
               /\ UNCHANGED <<db, nextId, placed, failures>>
          ELSE /\ db' = [db EXCEPT !.statements = @ \cup {newStatement}]
               /\ nextId' = nextId + 1
               /\ result' = Restored(result, "statements")
               /\ placed' = [placed EXCEPT !.statements[idx] = nextId]
               /\ UNCHANGED failures
    /\ pc' = AdvancePc("statements", idx)
    /\ idx' = AdvanceIdx("statements", idx)
    /\ UNCHANGED <<archive, backupData, targetUserId, mode, mapper, emailToIdMap, before,
                   prev, runs>>
    /\ Respond

\* lines 600-638: one iteration of restoreStatements' loop
RestoreStatement ==
    /\ pc = "statements"
    /\ UNCHANGED <<dirVars, sideVars>>
    /\ LET statement == backupData.data.statements[idx]
           newClientId == NewClientId(statement, emailToIdMap)
           newStatement == NewStatement(statement, nextId, targetUserId, newClientId)
       IN \E throws \in Throws :
          IF throws
          THEN /\ result' = Failed(result, "statement")
               /\ failures' = failures + 1
               /\ UNCHANGED <<db, nextId, placed>>
          ELSE /\ db' = [db EXCEPT !.statements = @ \cup {newStatement}]
               /\ nextId' = nextId + 1
               /\ result' = Restored(result, "statements")
               /\ placed' = [placed EXCEPT !.statements[idx] = nextId]
               /\ UNCHANGED failures
    /\ pc' = AdvancePc("statements", idx)
    /\ idx' = AdvanceIdx("statements", idx)
    /\ UNCHANGED <<archive, backupData, targetUserId, mode, mapper, emailToIdMap, before,
                   prev, runs>>
    /\ Respond

\* lines 643-678: one iteration of restoreDocuments' loop
RestoreDocument ==
    /\ pc = "documents"
    /\ UNCHANGED <<dirVars, sideVars>>
    /\ LET document == backupData.data.documents[idx]
           inv == IF document.invoiceId # NoId
                  THEN MapperGet(mapper, document.invoiceId, nextId)
                  ELSE <<NoId, 0>>
           par == IF document.parentDocumentId # NoId
                  THEN MapperGet(mapper, document.parentDocumentId, nextId + inv[2])
                  ELSE <<NoId, 0>>
           newId == nextId + inv[2] + par[2]
           newDocument == NewDocument(document, newId, targetUserId, inv[1], par[1])
       IN \E throws \in Throws :
          IF throws
          THEN /\ result' = Failed(result, "document")
               /\ failures' = failures + 1
               /\ nextId' = nextId + inv[2] + par[2]
               /\ UNCHANGED <<db, placed>>
          ELSE /\ db' = [db EXCEPT !.documents = @ \cup {newDocument}]
               /\ nextId' = newId + 1
               /\ result' = Restored(result, "documents")
               /\ placed' = [placed EXCEPT !.documents[idx] = newId]
               /\ UNCHANGED failures
    /\ pc' = AdvancePc("documents", idx)
    /\ idx' = AdvanceIdx("documents", idx)
    /\ UNCHANGED <<archive, backupData, targetUserId, mode, mapper, emailToIdMap, before,
                   prev, runs>>
    /\ Respond

\* a restorePreferences that, in merge mode, keeps the record the target has
RestorePreferencesKeepsExisting ==
    /\ pc = "preferences"
    /\ UNCHANGED <<dirVars, sideVars>>
    /\ LET preferences == backupData.data.preferences[idx]
           mine(coll) == {p \in coll : p.userId = targetUserId}
           afterDeleteOne ==
               IF mode = "replace" /\ mine(db.userPreferences) # {}
               THEN {db.userPreferences \ {p} : p \in mine(db.userPreferences)}
               ELSE {db.userPreferences}
           newPreferences(id) == NewPreferences(preferences, id, targetUserId)
       IN \E throws \in Throws, coll \in afterDeleteOne :
          IF throws
          THEN /\ result' = Failed(result, "preferences")
               /\ failures' = failures + 1
               /\ \/ db' = db
                  \/ db' = [db EXCEPT !.userPreferences = coll]
               /\ UNCHANGED <<nextId, placed>>
          ELSE /\ IF mine(coll) = {}
                  THEN /\ db' = [db EXCEPT !.userPreferences =
                                    coll \cup {newPreferences(nextId)}]
                       /\ nextId' = nextId + 1
                       /\ placed' = [placed EXCEPT !.preferences[idx] = nextId]
                  ELSE \E existing \in mine(coll) :
                       /\ db' = db
                       /\ nextId' = nextId
                       /\ placed' = [placed EXCEPT !.preferences[idx] = existing.id]
               /\ result' = [result EXCEPT !.restored.preferences = 1]
               /\ UNCHANGED failures
    /\ pc' = AdvancePc("preferences", idx)
    /\ idx' = AdvanceIdx("preferences", idx)
    /\ UNCHANGED <<archive, backupData, targetUserId, mode, mapper, emailToIdMap, before,
                   prev, runs>>
    /\ Respond

\* lines 683-721: restorePreferences, for a snapshot that holds preferences
RestorePreferences ==
    /\ pc = "preferences"
    /\ UNCHANGED <<dirVars, sideVars>>
    /\ LET preferences == backupData.data.preferences[idx]
           mine(coll) == {p \in coll : p.userId = targetUserId}
           \* deleteOne({ userId }) of replace mode: the collection afterwards
           afterDeleteOne ==
               IF mode = "replace" /\ mine(db.userPreferences) # {}
               THEN {db.userPreferences \ {p} : p \in mine(db.userPreferences)}
               ELSE {db.userPreferences}
           newPreferences(id) == NewPreferences(preferences, id, targetUserId)
       IN \E throws \in Throws, coll \in afterDeleteOne :
          IF throws
          THEN /\ result' = Failed(result, "preferences")
               /\ failures' = failures + 1
               /\ \/ db' = db
                  \/ db' = [db EXCEPT !.userPreferences = coll]
               /\ UNCHANGED <<nextId, placed>>
          ELSE /\ IF mine(coll) = {}
                  THEN /\ db' = [db EXCEPT !.userPreferences =
                                    coll \cup {newPreferences(nextId)}]
                       /\ nextId' = nextId + 1
                       /\ placed' = [placed EXCEPT !.preferences[idx] = nextId]
                  ELSE \E existing \in mine(coll) :
                       /\ db' = [db EXCEPT !.userPreferences =
                                    (coll \ {existing}) \cup {newPreferences(existing.id)}]
                       /\ nextId' = nextId
                       /\ placed' = [placed EXCEPT !.preferences[idx] = existing.id]
               /\ result' = [result EXCEPT !.restored.preferences = 1]
               /\ UNCHANGED failures
    /\ pc' = AdvancePc("preferences", idx)
    /\ idx' = AdvanceIdx("preferences", idx)
    /\ UNCHANGED <<archive, backupData, targetUserId, mode, mapper, emailToIdMap, before,
                   prev, runs>>
    /\ Respond

\* lines 726-775: one iteration of restoreDefaults' loop
RestoreDefault ==
    /\ pc = "defaults"
    /\ UNCHANGED <<dirVars, sideVars>>
    /\ LET defaultItem == backupData.data.defaults[idx]
           matches == IF mode = "merge"
                      THEN {d \in db.userDefaults :
                              d.userId = targetUserId /\ d.name = defaultItem.name}
                      ELSE {}
           newDefault == NewDefault(defaultItem, nextId, targetUserId)
       IN \E throws \in Throws :
          IF throws
          THEN /\ result' = Failed(result, "default")
               /\ failures' = failures + 1
               /\ UNCHANGED <<db, nextId, placed>>
          ELSE IF matches # {}
          THEN \E existing \in matches :
               /\ db' = [db EXCEPT !.userDefaults = (@ \ {existing}) \cup
                            {UpdatedDefault(existing, defaultItem)}]
               /\ placed' = [placed EXCEPT !.defaults[idx] = existing.id]
               /\ UNCHANGED <<nextId, result, failures>>
          ELSE /\ db' = [db EXCEPT !.userDefaults = @ \cup {newDefault}]
               /\ nextId' = nextId + 1
               /\ result' = Restored(result, "defaults")
               /\ placed' = [placed EXCEPT !.defaults[idx] = nextId]
               /\ UNCHANGED failures
    /\ pc' = AdvancePc("defaults", idx)
    /\ idx' = AdvanceIdx("defaults", idx)
    /\ UNCHANGED <<archive, backupData, targetUserId, mode, mapper, emailToIdMap, before,
                   prev, runs>>
    /\ Respond

-----------------------------------------------------------------------------
(* collectUserData *)

\* find(...).toArray(): the matching records in the store's natural
\* (insertion) order, which is the order of their ObjectIds
RECURSIVE ToArray(_)
ToArray(S) ==
    IF S = {} THEN <<>>
    ELSE LET first == CHOOSE r \in S : \A q \in S : r.id <= q.id
         IN <<first>> \o ToArray(S \ {first})

Find(coll, owner) == ToArray({r \in coll : r.userId = owner})

\* findOne(...) || null, kept as a sequence of at most one record
FindOne(coll, owner) ==
    LET all == Find(coll, owner) IN IF all = <<>> THEN <<>> ELSE <<all[1]>>

\* a capture whose header takes the documents count from the statements
CollectUserDataMiscounted(d, userId) ==
    LET clients == Find(d.clients, userId)
        invoices == Find(d.invoices, userId)
        documents == Find(d.documents, userId)
        statements == Find(d.statements, userId)
        preferences == FindOne(d.userPreferences, userId)
        defaults == Find(d.userDefaults, userId)
    IN [metadata |->
            [userId |-> userId,
             dataCounts |->
                [clients |-> Len(clients), invoices |-> Len(invoices),
                 documents |-> Len(statements), statements |-> Len(statements),
                 preferences |-> IF preferences # <<>> THEN 1 ELSE 0,
                 defaults |-> Len(defaults)]],
        data |->
            [clients |-> clients, invoices |-> invoices, documents |-> documents,
             statements |-> statements, preferences |-> preferences,
             defaults |-> defaults]]

\* a header that takes the preferences for one of the collections
BackupDataOfPreferencesCounted(userId, got) ==
    [metadata |->
        [userId |-> userId,
         dataCounts |->
            [clients |-> Len(got.clients), invoices |-> Len(got.invoices),
             documents |-> Len(got.documents), statements |-> Len(got.statements),
             preferences |-> Len(got.userDefaults),
             defaults |-> Len(got.userDefaults)]],
     data |->
        [clients |-> got.clients, invoices |-> got.invoices,
         documents |-> got.documents, statements |-> got.statements,
         preferences |-> got.userPreferences, defaults |-> got.userDefaults]]

\* lines 117-142: the BackupData returned for what the six fetches gave, got
\* holding each fetch's result under its collection's name
BackupDataOf(userId, got) ==
    [metadata |->
        [userId |-> userId,
         dataCounts |->
            [clients |-> Len(got.clients), invoices |-> Len(got.invoices),
             documents |-> Len(got.documents), statements |-> Len(got.statements),
             preferences |-> IF got.userPreferences # <<>> THEN 1 ELSE 0,
             defaults |-> Len(got.userDefaults)]],
     data |->
        [clients |-> got.clients, invoices |-> got.invoices,
         documents |-> got.documents, statements |-> got.statements,
         preferences |-> got.userPreferences, defaults |-> got.userDefaults]]

\* lines 90-113: what one of the six fetches gives on store d
Fetched(d, c, userId) ==
    IF c = "userPreferences" THEN FindOne(d[c], userId) ELSE Find(d[c], userId)

\* lines 88-142: the BackupData built from what the six fetches returned, all
\* six reading the same store
CollectUserData(d, userId) ==
    BackupDataOf(userId, [c \in Collections |-> Fetched(d, c, userId)])

\* createBackupFile, before the first restore request: the archive the
\* request will name holds what collectUserData returned for the caller
CreateBackup(userId) ==
    /\ pc = "idle"
    /\ UNCHANGED <<routeVars, dirVars, sideVars>>
    /\ archive' = CollectUserData(db, userId)
    /\ UNCHANGED <<db, nextId, backupData, targetUserId, mode, pc, idx, mapper, emailToIdMap,
                   result, placed, before, prev, runs, failures>>

-----------------------------------------------------------------------------
(* Inputs: the data an owner may hold, in the store or in an archive *)

SeqUpTo(S, n) == UNION {[1..k -> S] : k \in 0..n}

Emails == {<<"a", "n">>, <<"A", "n">>, <<"b", "o">>}

InvoiceNumbers == {"", "N1"}

DefaultNames == {"d1", "d2"}

\* A dataset names, per kind, the fields that matter of each record: a
\* client's email, an invoice's number, a statement's client (index into the
\* clients, 0 for none) and clientEmail, a document's invoice and parent
\* document (indexes, 0 for none, 9 for a record no longer held), whether
\* there are preferences, and the defaults' names.
NoData ==
    [clients |-> <<>>, invoices |-> <<>>, statements |-> <<>>, documents |-> <<>>,
     preferences |-> FALSE, defaults |-> <<>>]

\* one record of every kind, the statement and the document referring to the
\* client and the invoice
OneOfEach ==
    [clients |-> << <<"A", "n">> >>, invoices |-> <<"N1">>,
     statements |-> << [client |-> 1, clientEmail |-> <<"A", "n">>] >>,
     documents |-> << [invoice |-> 1, parent |-> 0] >>,
     preferences |-> TRUE, defaults |-> <<"d1">>]

StatementShapes ==
    [client : {0, 1}, clientEmail : Emails \cup {NoEmail}]

DocumentShapes ==
    {[invoice |-> v, parent |-> 0] : v \in {0, 1, 9}}
        \cup {[invoice |-> 0, parent |-> q] : q \in {1, 2}}

\* Each input pairs the dataset the archive was captured from with the
\* dataset the first owner holds when the restore is requested.

\* the clients vary on both sides
ClientInputs ==
    {[snapshot |-> [NoData EXCEPT !.clients = c], live |-> [NoData EXCEPT !.clients = l]] :
        c \in SeqUpTo(Emails, MaxClients), l \in SeqUpTo(Emails, 1)}

\* the invoices vary
InvoiceInputs ==
    {[snapshot |-> [NoData EXCEPT !.invoices = v], live |-> NoData] :
        v \in SeqUpTo(InvoiceNumbers, MaxInvoices)}

\* statements of a snapshot of one or two clients
StatementInputs ==
    {[snapshot |-> [NoData EXCEPT !.clients = c, !.statements = s],
      live |-> [NoData EXCEPT !.clients = l]] :
        c \in {<< <<"A", "n">> >>, << <<"a", "n">>, <<"b", "o">> >>},
        s \in SeqUpTo(StatementShapes, 1),
        l \in SeqUpTo({<<"a", "n">>}, 1)}

\* documents of a snapshot of one invoice; no document is its own parent
DocumentInputs ==
    {[snapshot |-> [NoData EXCEPT !.invoices = <<"N1">>, !.documents = d],
      live |-> NoData] :
        d \in {x \in SeqUpTo(DocumentShapes, MaxDocuments) :
                 \A i \in DOMAIN x : x[i].parent # i}}

\* the preferences vary on both sides
PreferencesInputs ==
    {[snapshot |-> [NoData EXCEPT !.preferences = p],
      live |-> [NoData EXCEPT !.preferences = q]] : p \in BOOLEAN, q \in BOOLEAN}

\* the defaults vary on both sides
DefaultInputs ==
    {[snapshot |-> [NoData EXCEPT !.defaults = d],
      live |-> [NoData EXCEPT !.defaults = l]] :
        d \in SeqUpTo(DefaultNames, 2), l \in SeqUpTo(DefaultNames, 1)}

\* two clients and three invoices, with a statement and documents that refer
\* to them, preferences and a default
TwoClientsThreeInvoices ==
    [clients |-> << <<"a", "n">>, <<"b", "o">> >>,
     invoices |-> <<"N1", "N2", "">>,
     statements |-> << [client |-> 2, clientEmail |-> <<"b", "o">>] >>,
     documents |-> << [invoice |-> 2, parent |-> 0], [invoice |-> 0, parent |-> 1] >>,
     preferences |-> TRUE, defaults |-> <<"d1">>]

\* the same with the first client's email as typed
AsTyped(ds) == [ds EXCEPT !.clients[1] = <<"A", "n">>]

\* whole datasets, restored onto an owner holding none, some or all of it
ScenarioInputs ==
    {[snapshot |-> s, live |-> l] :
        s \in {OneOfEach, TwoClientsThreeInvoices, AsTyped(TwoClientsThreeInvoices)},
        l \in {NoData, OneOfEach, TwoClientsThreeInvoices,
               [TwoClientsThreeInvoices EXCEPT !.invoices = <<>>],
               [AsTyped(TwoClientsThreeInvoices) EXCEPT !.invoices = <<>>]}}

Inputs ==
    ClientInputs \cup InvoiceInputs \cup StatementInputs \cup DocumentInputs
        \cup PreferencesInputs \cup DefaultInputs \cup ScenarioInputs

\* the records of dataset ds owned by `owner`, identifiers counted from base
ClientsOf(ds, owner, base) ==
    {[id |-> base + i, userId |-> owner, email |-> ds.clients[i],
      data |-> <<"client", base + i>>] : i \in DOMAIN ds.clients}

InvoicesOf(ds, owner, base) ==
    {[id |-> base + 10 + i, userId |-> owner, invoiceNumber |-> ds.invoices[i],
      data |-> <<"invoice", base + i>>] : i \in DOMAIN ds.invoices}

StatementsOf(ds, owner, base) ==
    {[id |-> base + 20 + i, userId |-> owner,
      clientId |-> IF ds.statements[i].client = 0 THEN NoId
                   ELSE base + ds.statements[i].client,
      clientEmail |-> ds.statements[i].clientEmail,
      data |-> <<"statement", base + i>>] : i \in DOMAIN ds.statements}

DocumentsOf(ds, owner, base) ==
    {[id |-> base + 30 + i, userId |-> owner,
      invoiceId |-> IF ds.documents[i].invoice = 0 THEN NoId
                    ELSE base + 10 + ds.documents[i].invoice,
      parentDocumentId |-> IF ds.documents[i].parent = 0 THEN NoId
                           ELSE base + 30 + ds.documents[i].parent,
      uploadedBy |-> owner,
      data |-> <<"document", base + i>>] : i \in DOMAIN ds.documents}

PreferencesOf(ds, owner, base) ==
    IF ds.preferences
    THEN {[id |-> base + 40, userId |-> owner, data |-> <<"preferences", base>>]}
    ELSE {}

DefaultsOf(ds, owner, base) ==
    {[id |-> base + 50 + i, userId |-> owner, name |-> ds.defaults[i],
      data |-> <<"default", base + i>>] : i \in DOMAIN ds.defaults}

StoreOf(ds, owner, base) ==
    [clients |-> ClientsOf(ds, owner, base),
     invoices |-> InvoicesOf(ds, owner, base),
     documents |-> DocumentsOf(ds, owner, base),
     statements |-> StatementsOf(ds, owner, base),
     userPreferences |-> PreferencesOf(ds, owner, base),
     userDefaults |-> DefaultsOf(ds, owner, base)]

Merge(d1, d2) == [c \in Collections |-> d1[c] \cup d2[c]]

-----------------------------------------------------------------------------
(* The restore route *)

\* a request body without a mode field
NoMode == "undefined"

\* the mode fields a request body may carry
RequestedModes == {NoMode, "merge", "replace", "overwrite"}

\* a destructuring that takes any mode it does not know for merge
ModeOfLenient(m) == IF m \in {"merge", "replace"} THEN m ELSE "merge"

\* route line 41: const { filename, mode = "merge" } = body
ModeOf(m) == IF m = NoMode THEN "merge" ELSE m

-----------------------------------------------------------------------------
(* The archive directory: listUserBackups, deleteBackupFile, cleanupOldBackups *)

MaxEntries == 3
MaxKeep == 2
MaxMishaps == 1

\* lines 243-250: the counts of an item made without the header
NoCounts ==
    [clients |-> 0, invoices |-> 0, documents |-> 0, statements |-> 0,
     preferences |-> 0, defaults |-> 0]

\* the content of an entry that cannot be decompressed or parsed
NoHeader == [userId |-> "", email |-> "", backupDate |-> 0, dataCounts |-> NoCounts]

\* String.prototype.startsWith over the owners' identifiers and the fragments
\* found in file names
StartsWith(s, prefix) ==
    CASE s = "u1" -> prefix \in {"", "u", "u1"}
      [] s = "u2" -> prefix \in {"", "u", "u2"}
      [] s = "u1x" -> prefix \in {"", "u", "u1", "u1x"}
      [] OTHER -> prefix = ""

\* an owner whose identifier begins like the first owner's and goes on
\* (identifiers are ObjectId strings, line 88: the first 8 of their 24 hex
\* digits are the second of creation, shared by accounts made in the same
\* second)
Namesake == "u1x"

\* line 162: userId.substring(0, 8), at the scale of the model's identifiers:
\* the first two characters
ShortUserId(u) == IF u = Namesake THEN "u1" ELSE u

\* line 163: the name createBackupFile gives an entry, as its parts between
\* dashes and its extension
BackupFilename(timestamp, u) ==
    [parts |-> <<"backup", "user", timestamp, ShortUserId(u)>>, ext |-> ".json.gz"]

\* line 207: f.startsWith("backup-user-") && f.endsWith(".json.gz")
IsBackupFile(f) ==
    /\ Len(f.parts) >= 3
    /\ f.parts[1] = "backup"
    /\ f.parts[2] = "user"
    /\ f.ext = ".json.gz"

\* lines 217-218: the last part of the name without its extension
FileUserId(f) == f.parts[Len(f.parts)]

\* lines 225-233: the item of an entry whose header was read
Metadata(e) ==
    [filename |-> e.filename, userId |-> e.header.userId, email |-> e.header.email,
     backupDate |-> e.header.backupDate, dataCounts |-> e.header.dataCounts]

\* lines 236-251: the item of an entry that could not be read
BasicMetadata(e) ==
    [filename |-> e.filename, userId |-> FileUserId(e.filename), email |-> "unknown",
     backupDate |-> e.birthtime, dataCounts |-> NoCounts]

\* whether readBackupFile returns the entry's content
Readable(e) == e.header # NoHeader

\* a scan that leaves out an entry it cannot read
ScannedSkipsUnreadable(bs, u, e) ==
    IF StartsWith(u, FileUserId(e.filename)) /\ Readable(e)
    THEN Append(bs, Metadata(e))
    ELSE bs

\* lines 216-253: backups after the iteration for an entry whose stat
\* succeeded
Scanned(bs, u, e) ==
    IF StartsWith(u, FileUserId(e.filename))
    THEN IF Readable(e) THEN Append(bs, Metadata(e)) ELSE Append(bs, BasicMetadata(e))
    ELSE bs

\* one step of a stable sort by descending date: x goes behind every item
\* that is not older
RECURSIVE InsertByDate(_, _)
InsertByDate(x, sorted) ==
    IF sorted = <<>> THEN <<x>>
    ELSE IF sorted[1].backupDate >= x.backupDate
         THEN <<sorted[1]>> \o InsertByDate(x, Tail(sorted))
         ELSE <<x>> \o sorted

\* line 260: backups.sort by date, newest first
RECURSIVE SortNewestFirst(_)
SortNewestFirst(bs) ==
    IF bs = <<>> THEN <<>>
    ELSE InsertByDate(bs[Len(bs)], SortNewestFirst(SubSeq(bs, 1, Len(bs) - 1)))

\* line 206: fs.readdir, the names in the order of their stamps
RECURSIVE Readdir(_)
Readdir(names) ==
    IF names = {} THEN <<>>
    ELSE LET first == CHOOSE f \in names : \A g \in names : f.parts[3] <= g.parts[3]
         IN <<first>> \o Readdir(names \ {first})

\* a slice that takes the first items instead of dropping them
SliceFromEnd(bs, start) == SubSeq(bs, 1, Len(bs) - start)

\* line 292: Array.prototype.slice(start)
Slice(bs, start) == SubSeq(bs, start + 1, Len(bs))

\* whether an injected failure or concurrent change may happen now
Mishap == IF mishaps < MaxMishaps THEN BOOLEAN ELSE {FALSE}

\* lines 259-262 and 286-293: what follows the scan loop without another
\* await: the sort and list's return, and for cleanup the comparison with
\* keepCount and the slice
Listed(bs, o, k) ==
    /\ backups' = SortNewestFirst(bs)
    /\ li' = 1
    /\ deletedCount' = 0
    /\ lpc' = IF o = "list" THEN "listed"
              ELSE IF Len(bs) <= k THEN "swept"
              ELSE "deleting"

\* lines 202-209 and 263-266, called by a route (o = "list") or by
\* cleanupOldBackups (o = "cleanup", lines 285-286): the directory is read and
\* filtered; when readdir fails the result is the empty list
StartOp(u, o, k) ==
    /\ lpc = "idle"
    /\ caller' = u
    /\ op' = o
    /\ keepCount' = k
    /\ unlinked' = {}
    /\ missed' = {}
    /\ \E fails \in Mishap :
          IF fails
          THEN /\ mishaps' = mishaps + 1
               /\ listed' = {}
               /\ backupFiles' = <<>>
               /\ backups' = <<>>
               /\ li' = 1
               /\ deletedCount' = 0
               /\ lpc' = IF o = "list" THEN "listed" ELSE "swept"
          ELSE /\ mishaps' = mishaps
               /\ listed' = files
               /\ backupFiles' = Readdir({e.filename : e \in {x \in files : IsBackupFile(x.filename)}})
               /\ IF backupFiles' = <<>>
                  THEN Listed(<<>>, o, k)
                  ELSE /\ backups' = <<>>
                       /\ li' = 1
                       /\ deletedCount' = 0
                       /\ lpc' = "scanning"
    /\ UNCHANGED <<sideVars, restoreVars, routeVars, files>>

\* listUserBackups called for its own sake
ListUserBackups(u) == StartOp(u, "list", keepCount)

\* lines 285-286: cleanupOldBackups up to its call of listUserBackups
CleanupOldBackups(u, k) == StartOp(u, "cleanup", k)

\* lines 211-257: one iteration of the scan loop.  stat fails for an entry
\* that is no longer there, and the entry is passed over.
ScanEntry ==
    /\ lpc = "scanning"
    /\ LET filename == backupFiles[li]
           present == {e \in files : e.filename = filename}
           bs == IF present = {} THEN backups
                 ELSE Scanned(backups, caller, CHOOSE e \in present : TRUE)
       IN /\ missed' = IF present = {} THEN missed \cup {filename} ELSE missed
          /\ IF li < Len(backupFiles)
             THEN /\ backups' = bs
                  /\ li' = li + 1
                  /\ UNCHANGED <<lpc, deletedCount>>
             ELSE Listed(bs, op, keepCount)
    /\ UNCHANGED <<sideVars, restoreVars, routeVars, files, caller, keepCount, op, backupFiles,
                   listed, unlinked, mishaps>>

\* a sweep that gives up at the first deletion that fails
DeleteEntryStopsAtFailure ==
    /\ lpc = "deleting"
    /\ LET toDelete == Slice(backups, keepCount)
           backup == toDelete[li]
           present == {e \in files : e.filename = backup.filename}
       IN /\ unlinked' = unlinked \cup {backup.filename}
          /\ \E fails \in Mishap :
                IF fails \/ present = {}
                THEN /\ mishaps' = IF fails THEN mishaps + 1 ELSE mishaps
                     /\ lpc' = "swept"
                     /\ li' = li + 1
                     /\ UNCHANGED <<files, deletedCount>>
                ELSE /\ files' = files \ present
                     /\ deletedCount' = deletedCount + 1
                     /\ mishaps' = mishaps
                     /\ li' = li + 1
                     /\ lpc' = IF li < Len(toDelete) THEN "deleting" ELSE "swept"
    /\ UNCHANGED <<sideVars, restoreVars, routeVars, caller, keepCount, op, backupFiles, backups,
                   listed, missed>>

\* lines 295-302 with deleteBackupFile (lines 272-280): one iteration of the
\* deletion loop.  unlink fails for an entry that is no longer there, or when
\* the file system refuses.
DeleteEntry ==
    /\ lpc = "deleting"
    /\ LET toDelete == Slice(backups, keepCount)
           backup == toDelete[li]
           present == {e \in files : e.filename = backup.filename}
       IN /\ unlinked' = unlinked \cup {backup.filename}
          /\ \E fails \in Mishap :
                IF fails \/ present = {}
                THEN /\ mishaps' = IF fails THEN mishaps + 1 ELSE mishaps
                     /\ UNCHANGED <<files, deletedCount>>
                ELSE /\ files' = files \ present
                     /\ deletedCount' = deletedCount + 1
                     /\ mishaps' = mishaps
          /\ li' = li + 1
          /\ lpc' = IF li < Len(toDelete) THEN "deleting" ELSE "swept"
    /\ UNCHANGED <<sideVars, restoreVars, routeVars, caller, keepCount, op, backupFiles, backups,
                   listed, missed>>

\* another request deletes an entry (deleteBackupFile) while the operation
\* is in progress
UnlinkElsewhere(e) ==
    /\ lpc \in {"scanning", "deleting"}
    /\ mishaps < MaxMishaps
    /\ e \in files
    /\ files' = files \ {e}
    /\ mishaps' = mishaps + 1
    /\ UNCHANGED <<sideVars, restoreVars, routeVars, caller, keepCount, lpc, op, backupFiles, li,
                   backups, deletedCount, listed, unlinked, missed>>

\* an entry becomes unreadable while the operation is in progress:
\* readBackupFile (lines 177-197) will throw for it
Damage(e) ==
    /\ lpc \in {"scanning", "deleting"}
    /\ mishaps < MaxMishaps
    /\ e \in files
    /\ Readable(e)
    /\ files' = (files \ {e}) \cup {[e EXCEPT !.header = NoHeader]}
    /\ mishaps' = mishaps + 1
    /\ UNCHANGED <<sideVars, restoreVars, routeVars, caller, keepCount, lpc, op, backupFiles, li,
                   backups, deletedCount, listed, unlinked, missed>>

\* listUserBackups (lines 202-262) with nothing else touching the directory
\* while it runs: the scan loop over names
RECURSIVE ScannedAll(_, _, _)
ScannedAll(bs, u, names) ==
    IF names = <<>> THEN bs
    ELSE LET e == CHOOSE x \in files : x.filename = Head(names)
         IN ScannedAll(Scanned(bs, u, e), u, Tail(names))

ListedAtOnce(u) ==
    SortNewestFirst(
        ScannedAll(<<>>, u,
                   Readdir({e.filename : e \in {x \in files : IsBackupFile(x.filename)}})))

\* the directories an operation may find

OneCounts ==
    [clients |-> 1, invoices |-> 1, documents |-> 1, statements |-> 1,
     preferences |-> 1, defaults |-> 1]

Header(u, date) ==
    [userId |-> u, email |-> "mail", backupDate |-> date, dataCounts |-> OneCounts]

Entry(filename, birthtime, header) ==
    [filename |-> filename, birthtime |-> birthtime, header |-> header]

\* an entry of owner u named by stamp t: captured at the time its name says,
\* with a header date that disagrees with the names' order, or unreadable
EntryOf(u, t, shape) ==
    CASE shape = "dated" -> Entry(BackupFilename(t, u), 10 * t, Header(u, 10 * t))
      [] shape = "skewed" ->
            Entry(BackupFilename(t, u), 10 * t, Header(u, 10 * (MaxEntries + 1 - t)))
      [] shape = "corrupt" -> Entry(BackupFilename(t, u), 10 * t + 5, NoHeader)

EntryShapes == {"absent", "dated", "skewed", "corrupt"}

\* the entry of the namesake, when there is one: the oldest of the directory
NamesakeFiles == {{}, {EntryOf(Namesake, 0, "dated")}}

\* a file of another owner and a file that is no archive entry
OtherFiles ==
    {EntryOf("u2", MaxEntries + 1, "dated"),
     Entry([parts |-> <<"backup", "user", MaxEntries + 2, "u1">>, ext |-> ".tmp"],
           10 * (MaxEntries + 2), NoHeader)}

Directories ==
    {{EntryOf("u1", t, shapes[t]) : t \in {x \in 1..MaxEntries : shapes[x] # "absent"}}
        \cup OtherFiles \cup others :
            shapes \in [1..MaxEntries -> EntryShapes], others \in NamesakeFiles}

-----------------------------------------------------------------------------
(* The restore route, with the archive directory *)

\* getCurrentUser found no user
NoUser == ""

\* a body without filename
NoFilename == [parts |-> <<>>, ext |-> ""]

\* the text of a request body: none, text that is not JSON, an object
Texts == {"", "{", "{}"}

\* the entry that holds `archive`
RequestedEntry == EntryOf("u1", 1, "dated")

\* an entry of the caller that cannot be read, and another owner's entry
RouteFiles == {RequestedEntry, EntryOf("u1", 2, "corrupt"), EntryOf("u2", 3, "dated")}

\* route lines 13-69: the error the route answers with before it calls
\* restoreUserData, "" when it gets that far.  The last is the message of
\* what readBackupFile throws, caught at lines 95-100.
Refusal(req) ==
    IF req.user = NoUser THEN "Unauthorized"
    ELSE IF req.text = "" THEN "Request body is required"
    ELSE IF req.text = "{" THEN "Invalid JSON in request body"
    ELSE IF req.filename = NoFilename THEN "Backup filename is required"
    ELSE IF ModeOf(req.mode) # "merge" /\ ModeOf(req.mode) # "replace"
         THEN "Mode must be either merge or replace"
    ELSE LET found == ListedAtOnce(req.user)
         IN IF \A i \in DOMAIN found : found[i].filename # req.filename
            THEN "Backup not found"
            ELSE IF \E e \in files : e.filename = req.filename /\ ~Readable(e)
            THEN "Failed to restore backup"
            ELSE ""

\* the status the route gives each of these errors
StatusOf(refusal) ==
    CASE refusal = "Unauthorized" -> 401
      [] refusal = "Backup not found" -> 404
      [] refusal = "Failed to restore backup" -> 500
      [] OTHER -> 400

\* route lines 11-102: POST /api/backup/restore up to its call of
\* restoreUserData, whose steps follow as the restore actions
PostRestoreOf(req) ==
    /\ pc \in {"idle", "done"}
    /\ requested' = req.mode
    /\ LET refusal == Refusal(req)
       IN /\ refused' = refusal
          /\ IF refusal # ""
             THEN /\ status' = StatusOf(refusal)
                  /\ body' = NoBody
                  /\ UNCHANGED <<restoreVars, dirVars, sideVars>>
             ELSE /\ StartRestore(req.user, ModeOf(req.mode))
                  /\ Answer

\* a request of caller t with mode field m that names the entry holding
\* `archive`
PostRestore(t, m) ==
    PostRestoreOf([user |-> t, text |-> "{}", filename |-> RequestedEntry.filename,
                   mode |-> m])

\* the requests the route may get: with a body that names any entry or none
\* in any mode, from a caller or from nobody, and without such a body
Requests ==
    [user : Callers \cup {NoUser}, text : {"{}"},
     filename : {NoFilename, BackupFilename(0, "u1")} \cup {e.filename : e \in RouteFiles},
     mode : RequestedModes]
      \cup [user : Callers, text : Texts, filename : {NoFilename}, mode : {NoMode}]

-----------------------------------------------------------------------------
(* Two restore requests in progress *)

\* what belongs to one restore request: restoreUserData's parameters and
\* locals (lines 381-406), restoreClients' emailToIdMap (line 499), the place
\* it has reached, its history of placements, and the route's answer to it
Locals ==
    [backupData |-> backupData, targetUserId |-> targetUserId, mode |-> mode,
     pc |-> pc, idx |-> idx, mapper |-> mapper, emailToIdMap |-> emailToIdMap,
     result |-> result, placed |-> placed, requested |-> requested,
     status |-> status, body |-> body, refused |-> refused]

\* a mapper kept outside the call: the request that takes over finds the
\* mappings of the one that ran before it
SwitchSharingMapper ==
    /\ pc # "idle" \/ other.pc # "idle"
    /\ other' = Locals
    /\ backupData' = other.backupData
    /\ targetUserId' = other.targetUserId
    /\ mode' = other.mode
    /\ pc' = other.pc
    /\ idx' = other.idx
    /\ mapper' = mapper
    /\ emailToIdMap' = other.emailToIdMap
    /\ result' = other.result
    /\ placed' = other.placed
    /\ requested' = other.requested
    /\ status' = other.status
    /\ body' = other.body
    /\ refused' = other.refused
    /\ UNCHANGED <<db, nextId, archive, before, prev, runs, failures, dirVars, captureVars>>

\* the running request awaits the store (every step of a restore does), and
\* the event loop goes on with the other request: each has its own
\* parameters, mapper (line 388), result (lines 389-406) and emailToIdMap
\* (line 499); the store is the same for both
Switch ==
    /\ pc # "idle" \/ other.pc # "idle"
    /\ other' = Locals
    /\ backupData' = other.backupData
    /\ targetUserId' = other.targetUserId
    /\ mode' = other.mode
    /\ pc' = other.pc
    /\ idx' = other.idx
    /\ mapper' = other.mapper
    /\ emailToIdMap' = other.emailToIdMap
    /\ result' = other.result
    /\ placed' = other.placed
    /\ requested' = other.requested
    /\ status' = other.status
    /\ body' = other.body
    /\ refused' = other.refused
    /\ UNCHANGED <<db, nextId, archive, before, prev, runs, failures, dirVars, captureVars>>

-----------------------------------------------------------------------------
(* createBackupFile step by step, and readBackupFile *)

MaxWrites == 2

\* a fetch that has not resolved
Pending == [done |-> FALSE, value |-> <<>>]

Resolved(value) == [done |-> TRUE, value |-> value]

NoBackupData == BackupDataOf("", [c \in Collections |-> <<>>])

\* createBackupFile lines 148-152 with collectUserData lines 77-113: the
\* owner's profile is found and the six fetches are issued
StartCapture(u) ==
    /\ cpc = "idle"
    /\ cpc' = "fetching"
    /\ capturing' = u
    /\ fetched' = [c \in Collections |-> Pending]
    /\ UNCHANGED <<captured, compressed, parsed, writes>>
    /\ UNCHANGED <<restoreVars, routeVars, dirVars, other>>

\* lines 88-142: one of the fetches resolves with what the store holds now;
\* when it is the last, Promise.all resolves and collectUserData returns
Fetch(c) ==
    /\ cpc = "fetching"
    /\ ~fetched[c].done
    /\ fetched' = [fetched EXCEPT ![c] = Resolved(Fetched(db, c, capturing))]
    /\ IF \A x \in Collections : fetched'[x].done
       THEN /\ cpc' = "captured"
            /\ captured' = BackupDataOf(capturing,
                                        [x \in Collections |-> fetched'[x].value])
       ELSE UNCHANGED <<cpc, captured>>
    /\ UNCHANGED <<capturing, compressed, parsed, writes>>
    /\ UNCHANGED <<restoreVars, routeVars, dirVars, other>>

\* another request inserts a record of the owner, or deletes one, while the
\* fetches are in progress
WriteElsewhere(c) ==
    /\ cpc = "fetching"
    /\ writes < MaxWrites
    /\ writes' = writes + 1
    /\ LET mine == {r \in db[c] : r.userId = capturing}
           new == StoreOf(OneOfEach, capturing, nextId)[c]
       IN \/ /\ c = "userPreferences" => mine = {}
             /\ db' = [db EXCEPT ![c] = @ \cup new]
             /\ nextId' = nextId + 60
          \/ \E r \in mine :
                /\ db' = [db EXCEPT ![c] = @ \ {r}]
                /\ nextId' = nextId
    /\ UNCHANGED <<cpc, capturing, fetched, captured, compressed, parsed>>
    /\ UNCHANGED <<archive, backupData, targetUserId, mode, pc, idx, mapper, emailToIdMap,
                   result, placed, before, prev, runs, failures, routeVars, dirVars,
                   other>>

\* an ObjectId held in memory, and the string of its hexadecimal digits
ObjectIdValue(v) == [type |-> "ObjectId", hex |-> v]

StringValue(v) == [type |-> "string", hex |-> v]

\* the fields of a record of each kind that hold an ObjectId (models Client,
\* Invoice, Statement, Document, UserPreferences, UserDefaults); elsewhere
\* the model writes an ObjectId as its bare number or owner name
IdFields(kind) ==
    CASE kind = "statements" -> {"id", "clientId"}
      [] kind = "documents" -> {"id", "invoiceId", "parentDocumentId"}
      [] OTHER -> {"id"}

\* the fields that hold the ObjectId of an owner
OwnerFields(kind) == IF kind = "documents" THEN {"userId", "uploadedBy"} ELSE {"userId"}

\* identifier v in a form: an ObjectId, or the string JSON has for it
IdValue(form, v) == IF form = "ObjectId" THEN ObjectIdValue(v) ELSE StringValue(v)

\* record r of a kind with each identifier it holds in the given form
WithIds(kind, r, form) ==
    [f \in DOMAIN r |->
        IF f \in OwnerFields(kind) THEN IdValue(form, r[f])
        ELSE IF f \in IdFields(kind) /\ r[f] # NoId THEN IdValue(form, r[f])
        ELSE r[f]]

\* BackupData bd with each identifier of its records in the given form
WithAllIds(bd, form) ==
    [bd EXCEPT !.data =
        [k \in DOMAIN bd.data |->
            [i \in DOMAIN bd.data[k] |-> WithIds(k, bd.data[k][i], form)]]]

\* the BackupData collectUserData returns, as it is in memory: the records'
\* identifiers are ObjectIds
InMemory(bd) == WithAllIds(bd, "ObjectId")

\* line 155: JSON.stringify, the text standing for the value it encodes:
\* ObjectId.prototype.toJSON gives the hexadecimal string, an undefined field
\* is left out
Stringify(bd) == WithAllIds(bd, "string")

\* line 158: gzip
Gzip(text) == [gzip |-> text]

\* line 191: gunzip
Gunzip(bytes) == bytes.gzip

\* line 194: JSON.parse without reviver gives the value the text encodes
Parse(text) == text

\* lines 154-169: createBackupFile after collectUserData has returned
WriteBackupFile ==
    /\ cpc = "captured"
    /\ cpc' = "written"
    /\ compressed' = Gzip(Stringify(captured))
    /\ UNCHANGED <<capturing, fetched, captured, parsed, writes>>
    /\ UNCHANGED <<restoreVars, routeVars, dirVars, other>>

\* lines 177-197: readBackupFile of the entry just written
ReadBackupFile ==
    /\ cpc = "written"
    /\ cpc' = "read"
    /\ parsed' = Parse(Gunzip(compressed))
    /\ UNCHANGED <<capturing, fetched, captured, compressed, writes>>
    /\ UNCHANGED <<restoreVars, routeVars, dirVars, other>>

-----------------------------------------------------------------------------
(* The system *)

\* The first owner holds input.live, the second owner one record of every
\* kind, and the archive holds what the second owner had captured from
\* input.snapshot.  No restore has been requested.
RestoreIdle(inputs) ==
    \E input \in inputs :
        /\ db = Merge(StoreOf(input.live, "u1", 0), StoreOf(OneOfEach, "u2", 60))
        /\ archive = CollectUserData(StoreOf(input.snapshot, "u2", 120), "u2")
        /\ backupData = archive
        /\ nextId = 181
        /\ targetUserId = "u1"
        /\ mode = "merge"
        /\ pc = "idle"
        /\ idx = 1
        /\ mapper = <<>>
        /\ emailToIdMap = <<>>
        /\ result = InitialResult
        /\ placed = NoPlaced(backupData)
        /\ before = db
        /\ prev = NoPrev
        /\ runs = 0
        /\ failures = 0

\* no restore request has been answered
RouteIdle ==
    /\ requested = "merge"
    /\ status = 0
    /\ body = NoBody
    /\ refused = ""

\* the directory is one of dirs, and no archive operation has begun
DirIdle(dirs) ==
    /\ files \in dirs
    /\ caller = "u1"
    /\ keepCount = 1
    /\ lpc = "idle"
    /\ op = "list"
    /\ backupFiles = <<>>
    /\ li = 1
    /\ backups = <<>>
    /\ deletedCount = 0
    /\ listed = files
    /\ unlinked = {}
    /\ missed = {}
    /\ mishaps = 0

\* no capture has begun
CaptureIdle ==
    /\ cpc = "idle"
    /\ capturing = "u1"
    /\ fetched = [c \in Collections |-> Pending]
    /\ captured = NoBackupData
    /\ compressed = Gzip(NoBackupData)
    /\ parsed = NoBackupData
    /\ writes = 0

\* the other request has not been made; when it is, it asks for mode m
OtherIdle(m) ==
    other = [backupData |-> NoBackupData, targetUserId |-> "u1", mode |-> m,
             pc |-> "idle", idx |-> 1, mapper |-> <<>>, emailToIdMap |-> <<>>,
             result |-> InitialResult, placed |-> NoPlaced(NoBackupData),
             requested |-> "merge", status |-> 0, body |-> NoBody, refused |-> ""]

SideIdle == CaptureIdle /\ OtherIdle("merge")

\* restores requested with a valid mode, of the one archive entry there is
Init ==
    /\ RestoreIdle(Inputs)
    /\ RouteIdle
    /\ SideIdle
    /\ DirIdle({{RequestedEntry}})

Next ==
    \/ \E t \in Callers, m \in Modes : PostRestore(t, m)
    \/ DeleteExisting
    \/ RestoreClient
    \/ RestoreInvoice
    \/ RestoreStatement
    \/ RestoreDocument
    \/ RestorePreferences
    \/ RestoreDefault
    \/ \E u \in Owners : CreateBackup(u)

Spec == Init /\ [][Next]_vars

\* restore requests with any mode field, of whole snapshots
RouteInit ==
    /\ RestoreIdle(ScenarioInputs)
    /\ RouteIdle
    /\ SideIdle
    /\ DirIdle({{RequestedEntry}})

RouteNext ==
    \/ \E t \in Callers, m \in RequestedModes : PostRestore(t, m)
    \/ DeleteExisting
    \/ RestoreClient
    \/ RestoreInvoice
    \/ RestoreStatement
    \/ RestoreDocument
    \/ RestorePreferences
    \/ RestoreDefault
    \/ \E u \in Owners : CreateBackup(u)

RouteSpec == RouteInit /\ [][RouteNext]_vars

\* one archive operation on a directory, with what may happen to the
\* directory meanwhile
ArchiveInit ==
    /\ RestoreIdle({[snapshot |-> OneOfEach, live |-> NoData]})
    /\ RouteIdle
    /\ SideIdle
    /\ DirIdle(Directories)

ArchiveNext ==
    \/ \E u \in Callers : ListUserBackups(u)
    \/ \E u \in Callers, k \in 1..MaxKeep : CleanupOldBackups(u, k)
    \/ ScanEntry
    \/ DeleteEntry
    \/ \E e \in files : UnlinkElsewhere(e)
    \/ \E e \in files : Damage(e)

ArchiveSpec == ArchiveInit /\ [][ArchiveNext]_vars

\* restore requests of every shape
AnswerInputs ==
    {[snapshot |-> s, live |-> l] :
        s \in {NoData, OneOfEach}, l \in {NoData, OneOfEach}}

AnswerInit ==
    /\ RestoreIdle(AnswerInputs)
    /\ RouteIdle
    /\ SideIdle
    /\ DirIdle({RouteFiles})

AnswerNext ==
    \/ \E req \in Requests : PostRestoreOf(req)
    \/ DeleteExisting
    \/ RestoreClient
    \/ RestoreInvoice
    \/ RestoreStatement
    \/ RestoreDocument
    \/ RestorePreferences
    \/ RestoreDefault

AnswerSpec == AnswerInit /\ [][AnswerNext]_vars

\* two restore requests of the same entry, their steps interleaved
PairInputs ==
    {[snapshot |-> [OneOfEach EXCEPT !.preferences = FALSE, !.defaults = <<>>],
      live |-> l] : l \in {NoData, OneOfEach}}

PairInit ==
    /\ RestoreIdle(PairInputs)
    /\ RouteIdle
    /\ DirIdle({{RequestedEntry}})
    /\ CaptureIdle
    /\ \E m \in Modes : OtherIdle(m)

\* each of the two requests is made once
PairNext ==
    \/ \E t \in Callers, m \in Modes : pc = "idle" /\ PostRestore(t, m)
    \/ Switch
    \/ DeleteExisting
    \/ RestoreClient
    \/ RestoreInvoice
    \/ RestoreStatement
    \/ RestoreDocument

PairSpec == PairInit /\ [][PairNext]_vars

\* the datasets an owner may hold when a capture begins
CaptureInputs ==
    {[snapshot |-> NoData, live |-> l] :
        l \in {NoData, OneOfEach, TwoClientsThreeInvoices}}

\* one capture of an owner's data, written to an entry and read back, with
\* other requests writing to the store meanwhile
CaptureInit ==
    /\ RestoreIdle(CaptureInputs)
    /\ RouteIdle
    /\ DirIdle({{EntryOf("u2", 1, "dated")}})
    /\ SideIdle

CaptureNext ==
    \/ \E u \in Callers : StartCapture(u)
    \/ \E c \in Collections : Fetch(c)
    \/ \E c \in Collections : WriteElsewhere(c)
    \/ WriteBackupFile
    \/ ReadBackupFile

CaptureSpec == CaptureInit /\ [][CaptureNext]_vars

-----------------------------------------------------------------------------
(* Vocabulary of the properties *)

Snapshot(kind) == Records(backupData, kind)

\* the collection that holds a kind
CollectionOf(kind) ==
    CASE kind = "preferences" -> "userPreferences"
      [] kind = "defaults" -> "userDefaults"
      [] OTHER -> kind

\* the records of a kind that the target owner holds in store d
Owned(d, kind) == {r \in d[CollectionOf(kind)] : r.userId = targetUserId}

Ids(S) == {r.id : r \in S}

SeqRange(q) == {q[i] : i \in DOMAIN q}

\* what a record says, apart from its identifiers and its owner
Content(kind, r) ==
    CASE kind = "clients" -> <<r.email, r.data>>
      [] kind = "invoices" -> <<r.invoiceNumber, r.data>>
      [] kind = "statements" -> <<r.clientEmail, r.data>>
      [] kind = "documents" -> <<r.data>>
      [] kind = "preferences" -> <<r.data>>
      [] kind = "defaults" -> <<r.name, r.data>>

\* store failures met by the current restore
RunFailures == failures - prev.failures

\* the current restore has returned without meeting a store failure
CleanRun(m) == pc = "done" /\ runs > 0 /\ mode = m /\ RunFailures = 0

\* the current restore repeats the previous one: same snapshot, same target,
\* merge both times, nothing else written in between, no store failure
SecondMerge ==
    /\ CleanRun("merge")
    /\ prev.valid /\ prev.mode = "merge" /\ prev.targetUserId = targetUserId
    /\ prev.backupData = backupData /\ prev.db = before
    /\ prev.failures = 0

-----------------------------------------------------------------------------
(* C1 *)

\* C1: the second of two consecutive merge restores of the same snapshot onto
\* the same target restores no client and no invoice, counts every snapshot
\* client and invoice as skipped, and leaves the target's clients and invoices
\* as the first run left them.
C1_SecondMergeRestoresNothing ==
    SecondMerge =>
        /\ result.restored.clients = 0
        /\ result.restored.invoices = 0
        /\ result.skipped.clients = Len(Snapshot("clients"))
        /\ result.skipped.invoices = Len(Snapshot("invoices"))
        /\ db.clients = before.clients
        /\ db.invoices = before.invoices

-----------------------------------------------------------------------------
(* C2 *)

\* the target's live records of a kind are the snapshot's, each exactly once,
\* and none of them is a record the target held before
ExactlyTheSnapshot(kind) ==
    /\ Cardinality(Owned(db, kind)) = Len(Snapshot(kind))
    /\ \A i \in DOMAIN Snapshot(kind) :
          Cardinality({r \in Owned(db, kind) :
                          Content(kind, r) = Content(kind, Snapshot(kind)[i])}) = 1
    /\ Ids(Owned(db, kind)) \cap Ids(before[CollectionOf(kind)]) = {}

\* C2: after a replace-mode restore that met no store failure, the target's
\* live records of every kind are exactly the snapshot's records of that kind
\* (up to identifiers and owner): the records held before are gone and each
\* snapshot record is present exactly once.
C2_ReplaceLeavesExactlyTheSnapshot ==
    CleanRun("replace") => \A kind \in Kinds : ExactlyTheSnapshot(kind)

\* a replace restore has finished on a target that held stale records of every
\* kind, from a snapshot with records of every kind
C2_Witness ==
    /\ CleanRun("replace")
    /\ \A kind \in Kinds :
          /\ Owned(before, kind) # {}
          /\ Len(Snapshot(kind)) > 0
          /\ Ids(Owned(before, kind)) \cap Ids(SeqRange(Snapshot(kind))) = {}

-----------------------------------------------------------------------------
(* C3 *)

\* the target still holds a client with the email of every snapshot client,
\* and holds no invoice
ClientsKeptInvoicesGone ==
    /\ \A i \in DOMAIN Snapshot("clients") :
          \E c \in Owned(before, "clients") : c.email = Snapshot("clients")[i].email
    /\ Owned(before, "invoices") = {}

\* C3: merge mode matches clients on the lower-cased email and invoices on the
\* invoice number, skipping what matches and inserting the rest; in
\* particular a snapshot of 2 clients and 3 invoices merged onto an owner who
\* still has both clients and none of the invoices reports
\* restored.clients = 0, skipped.clients = 2, restored.invoices = 3.
C3_TwoClientsSkippedThreeInvoicesRestored ==
    (/\ CleanRun("merge")
     /\ Len(Snapshot("clients")) = 2
     /\ Len(Snapshot("invoices")) = 3
     /\ ClientsKeptInvoicesGone)
    => /\ result.restored.clients = 0
       /\ result.skipped.clients = 2
       /\ result.restored.invoices = 3

-----------------------------------------------------------------------------
(* C4 *)

\* the snapshot restored is what capture returns for the target on the store
\* as it was when the restore began
CapturedJustBefore == backupData = CollectUserData(before, targetUserId)

\* C4: capturing an owner's data and at once restoring the snapshot in replace
\* mode onto that owner, with no store failure, leaves the owner with as many
\* live records of every kind as before, and restored.<kind> equals the
\* snapshot header's count of every kind.
C4_CaptureThenReplaceKeepsCounts ==
    (CleanRun("replace") /\ CapturedJustBefore) =>
        \A kind \in Kinds :
            /\ Cardinality(Owned(db, kind)) = Cardinality(Owned(before, kind))
            /\ result.restored[kind] = backupData.metadata.dataCounts[kind]

\* such a restore has finished for an owner holding records of every kind,
\* more documents than statements
C4_Witness ==
    /\ CleanRun("replace")
    /\ CapturedJustBefore
    /\ \A kind \in Kinds : Owned(before, kind) # {}
    /\ Cardinality(Owned(before, "documents")) > Cardinality(Owned(before, "statements"))

-----------------------------------------------------------------------------
(* C5 *)

\* the snapshot's records of a kind have each been given a new live record
InsertedAfresh(kind) ==
    /\ \A i \in DOMAIN Snapshot(kind) :
          /\ placed[kind][i] \in Ids(Owned(db, kind))
          /\ placed[kind][i] \notin Ids(before[CollectionOf(kind)])
          /\ \A j \in DOMAIN Snapshot(kind) : placed[kind][i] = placed[kind][j] => i = j
    /\ Cardinality(Owned(db, kind)) =
          Cardinality(Owned(before, kind)) + Len(Snapshot(kind))

\* C5: statements and documents are never de-duplicated.  A merge restore
\* without store failure inserts one new live record per snapshot statement
\* and per snapshot document, the same merge restore run again adds as many
\* again, and skipped.statements and skipped.documents are always 0.
C5_StatementsAndDocumentsAlwaysInserted ==
    /\ result.skipped.statements = 0
    /\ result.skipped.documents = 0
    /\ \A kind \in {"statements", "documents"} :
          /\ CleanRun("merge") => InsertedAfresh(kind)
          /\ SecondMerge =>
                Cardinality(Owned(db, kind)) =
                    Cardinality(Owned(prev.before, kind)) + 2 * Len(Snapshot(kind))

\* the same merge restore has run twice on a snapshot with statements and
\* documents
C5_Witness ==
    /\ SecondMerge
    /\ Len(Snapshot("statements")) > 0
    /\ Len(Snapshot("documents")) > 1

-----------------------------------------------------------------------------
(* C6 *)

\* C6: every record a restore writes into any of the six collections has the
\* target owner as its owner, and every document it writes has the target
\* owner as uploadedBy, whoever owns the snapshot and its records.
C6_WrittenRecordsBelongToTheTarget ==
    [][\A c \in Collections : \A r \in db'[c] \ db[c] :
          /\ r.userId = targetUserId
          /\ c = "documents" => r.uploadedBy = targetUserId]_vars

\* a snapshot captured by another owner has been restored, with records of
\* every kind inserted
C6_Witness ==
    /\ pc = "done"
    /\ backupData.metadata.userId # targetUserId
    /\ \A kind \in Kinds :
          /\ result.restored[kind] > 0
          /\ \A i \in DOMAIN Snapshot(kind) : Snapshot(kind)[i].userId # targetUserId

-----------------------------------------------------------------------------
(* C7 *)

\* the live document written for the snapshot's i-th document
LiveDocument(i) == CHOOSE d \in db.documents : d.id = placed.documents[i]

\* C7: for every snapshot document whose parentDocumentId is the identifier
\* of another document of the snapshot, the restored child's parentDocumentId
\* is the live identifier of the restored parent.
C7_ParentDocumentReferencePreserved ==
    \A i, j \in DOMAIN Snapshot("documents") :
        (/\ Snapshot("documents")[i].parentDocumentId = Snapshot("documents")[j].id
         /\ placed.documents[i] # NoId
         /\ placed.documents[j] # NoId)
        => LiveDocument(i).parentDocumentId = placed.documents[j]

-----------------------------------------------------------------------------
(* C8 *)

\* the live invoice that stands for the snapshot's j-th invoice: one the
\* target owns, with that invoice's number
StandsForInvoice(id, j) ==
    \E v \in Owned(db, "invoices") :
        /\ v.id = id
        /\ v.invoiceNumber = Snapshot("invoices")[j].invoiceNumber
        /\ \/ id \notin Ids(before.invoices)
           \/ mode = "merge" /\ v.invoiceNumber # ""

\* C8: every inserted document whose snapshot invoiceId is the identifier of
\* a snapshot invoice processed without error refers to the live identifier
\* of that invoice (the invoice inserted, or in merge mode the target's
\* existing invoice with that number); a document with no invoiceId is
\* inserted with none.
C8_DocumentInvoiceReferenceRemapped ==
    \A i \in DOMAIN Snapshot("documents") :
        placed.documents[i] # NoId =>
            /\ Snapshot("documents")[i].invoiceId = NoId =>
                  LiveDocument(i).invoiceId = NoId
            /\ \A j \in DOMAIN Snapshot("invoices") :
                  (/\ Snapshot("documents")[i].invoiceId = Snapshot("invoices")[j].id
                   /\ placed.invoices[j] # NoId)
                  => /\ LiveDocument(i).invoiceId = placed.invoices[j]
                     /\ StandsForInvoice(placed.invoices[j], j)

\* a merge restore has inserted a document that refers to an invoice matched
\* with one the target held, one that refers to an invoice just inserted, and
\* one without invoice
C8_Witness ==
    /\ pc = "done"
    /\ mode = "merge"
    /\ \E i \in DOMAIN Snapshot("documents") :
          /\ placed.documents[i] # NoId
          /\ Snapshot("documents")[i].invoiceId = NoId
    /\ \E i \in DOMAIN Snapshot("documents"), j \in DOMAIN Snapshot("invoices") :
          /\ placed.documents[i] # NoId
          /\ Snapshot("documents")[i].invoiceId = Snapshot("invoices")[j].id
          /\ placed.invoices[j] \in Ids(before.invoices)
          /\ Snapshot("invoices")[j].id # placed.invoices[j]

\* a merge or replace restore has inserted a document that refers to an
\* invoice it has just inserted
C8_WitnessInserted ==
    \E i \in DOMAIN Snapshot("documents"), j \in DOMAIN Snapshot("invoices") :
        /\ placed.documents[i] # NoId
        /\ Snapshot("documents")[i].invoiceId = Snapshot("invoices")[j].id
        /\ placed.invoices[j] # NoId
        /\ placed.invoices[j] \notin Ids(before.invoices)

-----------------------------------------------------------------------------
(* C9 *)

\* the live statement written for the snapshot's i-th statement
LiveStatement(i) == CHOOSE x \in db.statements : x.id = placed.statements[i]

\* the snapshot clients processed without error whose lower-cased email is
\* the statement's lower-cased clientEmail
ClientsWithEmailOf(statement) ==
    {j \in DOMAIN Snapshot("clients") :
        /\ placed.clients[j] # NoId
        /\ ToLowerCase(Snapshot("clients")[j].email) = ToLowerCase(statement.clientEmail)}

\* the clientId of the inserted statement is the live identifier the client
\* phase recorded for a client with the statement's email, and absent when
\* there is none
ClientFoundByEmail(i) ==
    LET statement == Snapshot("statements")[i]
        found == ClientsWithEmailOf(statement)
    IN /\ found = {} => LiveStatement(i).clientId = NoId
       /\ found # {} =>
             /\ \E j \in found : LiveStatement(i).clientId = placed.clients[j]
             /\ LiveStatement(i).clientId \in Ids(Owned(db, "clients"))

\* C9 as claimed: for every inserted statement that carried a client
\* reference, clientId is the live identifier recorded in this restore's
\* client phase for the client with the statement's lower-cased clientEmail,
\* it is never the snapshot-local client identifier, and it is absent when no
\* client with that email was processed.
C9_StatementClientNeverSnapshotLocal ==
    \A i \in DOMAIN Snapshot("statements") :
        (placed.statements[i] # NoId /\ Snapshot("statements")[i].clientId # NoId)
        => /\ ClientFoundByEmail(i)
           /\ LiveStatement(i).clientId # Snapshot("statements")[i].clientId

\* C9 as amended: for every inserted statement that carried a client
\* reference, clientId is the live identifier recorded in this restore's
\* client phase for the client with the statement's lower-cased clientEmail,
\* and absent when no client with that email was processed; it is the
\* snapshot-local client identifier only when merge mode matched a client the
\* target already held under that very identifier.
C9_StatementClientFromEmailMap ==
    \A i \in DOMAIN Snapshot("statements") :
        (placed.statements[i] # NoId /\ Snapshot("statements")[i].clientId # NoId)
        => /\ ClientFoundByEmail(i)
           /\ LiveStatement(i).clientId = Snapshot("statements")[i].clientId
                 => /\ mode = "merge"
                    /\ LiveStatement(i).clientId \in Ids(Owned(before, "clients"))

\* statements have been inserted whose client was found by an email that
\* differs from the client's in case only, and in merge mode a statement whose
\* client was matched with one the target held
C9_Witness ==
    \E i \in DOMAIN Snapshot("statements") :
        /\ placed.statements[i] # NoId
        /\ Snapshot("statements")[i].clientId # NoId
        /\ LiveStatement(i).clientId # NoId
        /\ LiveStatement(i).clientId \in Ids(Owned(before, "clients"))
        /\ \E j \in ClientsWithEmailOf(Snapshot("statements")[i]) :
              Snapshot("clients")[j].email # Snapshot("statements")[i].clientEmail

-----------------------------------------------------------------------------
(* C10 *)

\* the order the claim states
StatedOrder ==
    <<"clients", "invoices", "statements", "documents", "preferences", "defaults">>

\* the message restore pushes for a failed record of a kind
ErrorOf(kind) ==
    CASE kind = "clients" -> "client"
      [] kind = "invoices" -> "invoice"
      [] kind = "statements" -> "statement"
      [] kind = "documents" -> "document"
      [] kind = "preferences" -> "preferences"
      [] kind = "defaults" -> "default"

\* the records of a kind the result accounts for: restored, skipped or failed
Accounted(kind) ==
    result.restored[kind]
        + (IF kind \in DOMAIN result.skipped THEN result.skipped[kind] ELSE 0)
        + Cardinality({n \in DOMAIN result.errors : result.errors[n] = ErrorOf(kind)})

\* C10: the writes that restore a snapshot's records happen in the order
\* clients, invoices, statements, documents, preferences, defaults: when a
\* collection is written (other than by replace mode's preparatory deletion),
\* every record of every earlier kind has been processed, whether it was
\* restored, skipped or failed.
C10_WritesFollowTheKindOrder ==
    [][\A k \in DOMAIN StatedOrder :
          (/\ pc # "deleting"
           /\ db'[CollectionOf(StatedOrder[k])] # db[CollectionOf(StatedOrder[k])])
          => \A e \in 1..(k - 1) :
                Accounted(StatedOrder[e]) = Len(Snapshot(StatedOrder[e]))]_vars

\* a restore of records of every kind has met a failure on a client and gone
\* on to write a default
C10_Witness ==
    /\ pc = "done"
    /\ \A kind \in Kinds : Len(Snapshot(kind)) > 0
    /\ result.errors = <<"client">>
    /\ result.restored.defaults > 0

-----------------------------------------------------------------------------
(* C11 *)

\* C11: in replace mode, when the first (or any) record of the snapshot is
\* written, none of the records the target owner held in any of the six
\* collections when the restore began is left; in merge mode no step removes a
\* record from any collection.
C11_DeletionCompleteBeforeInsertion ==
    [][/\ (mode = "replace" /\ pc \in Kinds /\ db' # db) =>
             \A kind \in Kinds :
                Ids(Owned(before, kind)) \cap Ids(db[CollectionOf(kind)]) = {}
       /\ mode = "merge" =>
             \A c \in Collections : Ids(db[c]) \subseteq Ids(db'[c])]_vars

\* a replace restore is under way on a target that held records of every
\* kind, and has inserted its first client
C11_Witness ==
    /\ mode = "replace"
    /\ pc \in Kinds
    /\ result.restored.clients = 1
    /\ \A kind \in Kinds : Owned(before, kind) # {}

-----------------------------------------------------------------------------
(* C12 *)

\* C12: the result's success flag is false exactly when an exception reached
\* the top-level handler of restoreUserData, which is when the bulk deletion
\* of replace mode failed; a failure on a record is recorded in errors and
\* leaves success true, however many there are.
C12_SuccessFalseIffTopLevelException ==
    [][/\ ~result'.success <=> (pc = "deleting" /\ failures' > failures)
       /\ (pc \in Kinds /\ failures' > failures) =>
             /\ result'.success
             /\ Len(result'.errors) = Len(result.errors) + 1]_vars

\* a replace restore has returned after its bulk deletion failed
C12_Witness ==
    /\ pc = "done"
    /\ mode = "replace"
    /\ ~result.success
    /\ result.errors = <<"top">>

\* a restore has returned with success after a failure on every record it met
C12_WitnessPerRecord ==
    /\ pc = "done"
    /\ result.success
    /\ Len(result.errors) = MaxFailures
    /\ \A kind \in Kinds : result.restored[kind] = 0

-----------------------------------------------------------------------------
(* C13 *)

\* the kinds restored record by record in a loop
LoopKinds == {"clients", "invoices", "statements", "documents", "defaults"}

\* the snapshot records of a kind that a restore has gone past
Processed(kind) ==
    IF pc = "done" \/ (pc \in Kinds /\ KindIndex(pc) > KindIndex(kind))
    THEN Len(Snapshot(kind))
    ELSE IF pc = kind THEN idx - 1
    ELSE 0

\* C13: a store failure on one client, invoice, statement, document or default
\* appends exactly one message to errors for that record, increments no
\* counter and writes nothing; the restore goes on with the next record of
\* that kind, then with the later kinds, so that it returns with success
\* having gone through every record of the snapshot, each one restored,
\* skipped, updated in place or failed.
C13_RecordFailureIsIsolated ==
    [][/\ (pc \in LoopKinds /\ failures' > failures) =>
             /\ result'.errors = Append(result.errors, ErrorOf(pc))
             /\ result'.restored = result.restored
             /\ result'.skipped = result.skipped
             /\ result'.success = result.success
             /\ db' = db
             /\ pc' = AdvancePc(pc, idx)
             /\ idx' = AdvanceIdx(pc, idx)
       /\ (pc \in Kinds /\ pc' = "done") =>
             \A kind \in Kinds :
                /\ Processed(kind)' = Len(Snapshot(kind))
                /\ \A i \in DOMAIN Snapshot(kind) :
                      placed'[kind][i] = NoId =>
                         \E n \in DOMAIN result'.errors :
                            result'.errors[n] = ErrorOf(kind)
                /\ Cardinality({i \in DOMAIN Snapshot(kind) : placed'[kind][i] = NoId})
                      = Cardinality({n \in DOMAIN result'.errors :
                                        result'.errors[n] = ErrorOf(kind)})]_vars

\* a restore of records of every kind has returned after a failure on its
\* first invoice, with the second invoice and the later kinds restored
C13_Witness ==
    /\ pc = "done"
    /\ result.errors = <<"invoice">>
    /\ Len(Snapshot("invoices")) > 1
    /\ placed.invoices[1] = NoId
    /\ placed.invoices[2] # NoId
    /\ \A kind \in Kinds \ {"invoices"} :
          /\ Len(Snapshot(kind)) > 0
          /\ \A i \in DOMAIN Snapshot(kind) : placed[kind][i] # NoId

-----------------------------------------------------------------------------
(* C14 *)

\* every identifier the store or a snapshot record holds or refers to
AllIds(d) ==
    UNION {Ids(d[c]) : c \in Collections}
        \cup {r.clientId : r \in d.statements}
        \cup {r.invoiceId : r \in d.documents}
        \cup {r.parentDocumentId : r \in d.documents}

SnapshotIds ==
    UNION {Ids(SeqRange(Snapshot(kind))) : kind \in Kinds}
        \cup {r.invoiceId : r \in SeqRange(Snapshot("documents"))}
        \cup {r.clientId : r \in SeqRange(Snapshot("statements"))}

\* identifier `id`, held as invoice reference by the i-th restored document,
\* was minted for that reference alone
MintedForInvoiceOf(id, i) ==
    /\ id # NoId
    /\ id \notin AllIds(before) \cup SnapshotIds
    /\ id \notin UNION {Ids(db[c]) : c \in Collections}
    /\ id \notin {mapper[k] : k \in DOMAIN mapper}
    /\ LiveDocument(i).parentDocumentId # id
    /\ \A j \in DOMAIN Snapshot("documents") \ {i} :
          placed.documents[j] # NoId =>
             /\ LiveDocument(j).invoiceId # id
             /\ LiveDocument(j).parentDocumentId # id

\* what the documents restored so far say about ObjectIdMapper.get
ResolvedOrMinted ==
    /\ MapperGet(mapper, NoId, nextId) = <<nextId, 1>>
    /\ \A oldId \in SnapshotIds \ {NoId} :
          IF MapperHas(mapper, oldId)
          THEN MapperGet(mapper, oldId, nextId) = <<mapper[oldId], 0>>
          ELSE MapperGet(mapper, oldId, nextId) = <<nextId, 1>>
    /\ \A i \in DOMAIN Snapshot("documents") :
          LET invoiceId == Snapshot("documents")[i].invoiceId
          IN (placed.documents[i] # NoId /\ invoiceId # NoId) =>
                IF MapperHas(mapper, invoiceId)
                THEN LiveDocument(i).invoiceId = mapper[invoiceId]
                ELSE MintedForInvoiceOf(LiveDocument(i).invoiceId, i)

\* C14: ObjectIdMapper.get returns the recorded live identifier of a mapped
\* identifier, and for an unmapped or missing identifier a freshly minted one,
\* without failing and without recording it: has stays false and every later
\* get mints another.  A document whose invoiceId was not seen in this restore
\* is inserted, with an invoice reference minted for it alone.
C14_ResolveAllocatesWithoutRecording ==
    [][pc = "documents" =>
          /\ mapper' = mapper
          /\ failures' = failures =>
                /\ placed'.documents[idx] # NoId
                /\ result'.errors = result.errors
          /\ ResolvedOrMinted']_vars

\* two documents that refer to the same invoice, one that no restore step has
\* seen, have been inserted
C14_Witness ==
    \E i, j \in DOMAIN Snapshot("documents") :
        /\ i # j
        /\ placed.documents[i] # NoId
        /\ placed.documents[j] # NoId
        /\ Snapshot("documents")[i].invoiceId # NoId
        /\ Snapshot("documents")[i].invoiceId = Snapshot("documents")[j].invoiceId
        /\ ~MapperHas(mapper, Snapshot("documents")[i].invoiceId)

-----------------------------------------------------------------------------
(* C15 *)

\* C15: after a restore without store failure of a snapshot that holds
\* preferences, in either mode, the target has exactly one preferences record,
\* its content is the snapshot's, and restored.preferences = 1.  After a
\* restore of a snapshot without preferences, restored.preferences = 0, and in
\* merge mode the target's preferences are as they were.
C15_PreferencesUpserted ==
    /\ (pc = "done" /\ runs > 0 /\ RunFailures = 0 /\ Len(Snapshot("preferences")) = 1) =>
          /\ Cardinality(Owned(db, "preferences")) = 1
          /\ \A p \in Owned(db, "preferences") :
                Content("preferences", p) = Content("preferences", Snapshot("preferences")[1])
          /\ result.restored.preferences = 1
    /\ (runs > 0 /\ Len(Snapshot("preferences")) = 0) =>
          /\ result.restored.preferences = 0
          /\ mode = "merge" => Owned(db, "preferences") = Owned(before, "preferences")

\* a merge restore of a snapshot with preferences has finished on a target
\* that had preferences of its own
C15_Witness ==
    /\ CleanRun("merge")
    /\ Len(Snapshot("preferences")) = 1
    /\ \E p \in Owned(before, "preferences") :
          Content("preferences", p) # Content("preferences", Snapshot("preferences")[1])

\* a merge restore of a snapshot without preferences has finished on a target
\* that has preferences
C15_WitnessNone ==
    /\ CleanRun("merge")
    /\ Len(Snapshot("preferences")) = 0
    /\ Owned(db, "preferences") # {}

-----------------------------------------------------------------------------
(* C16 *)

\* the target's live defaults with the name of the snapshot default at idx
SameNamedDefaults ==
    {d \in Owned(db, "defaults") : d.name = Snapshot("defaults")[idx].name}

\* C16: a step of restoreDefaults that meets no store failure, in merge mode
\* and on a snapshot default with the name of a live default of the target,
\* sets that live record's fields to the snapshot's and touches nothing else:
\* no record is added, the count of the target's defaults and
\* restored.defaults stay; with no same-named live default, and always in
\* replace mode, the default is inserted and restored.defaults goes up by one.
C16_DefaultsUpdatedInPlace ==
    [][(pc = "defaults" /\ failures' = failures) =>
          IF mode = "merge" /\ SameNamedDefaults # {}
          THEN /\ Ids(db'.userDefaults) = Ids(db.userDefaults)
               /\ Cardinality(db'.userDefaults) = Cardinality(db.userDefaults)
               /\ result' = result
               /\ \E d \in SameNamedDefaults :
                     /\ db.userDefaults \ {d} \subseteq db'.userDefaults
                     /\ \E u \in db'.userDefaults :
                           /\ u.id = d.id
                           /\ u.userId = d.userId
                           /\ Content("defaults", u) =
                                 Content("defaults", Snapshot("defaults")[idx])
          ELSE /\ db.userDefaults \subseteq db'.userDefaults
               /\ Cardinality(db'.userDefaults) = Cardinality(db.userDefaults) + 1
               /\ \E u \in db'.userDefaults \ db.userDefaults :
                     /\ u.id \notin Ids(db.userDefaults)
                     /\ u.userId = targetUserId
                     /\ Content("defaults", u) =
                           Content("defaults", Snapshot("defaults")[idx])
               /\ result'.restored.defaults = result.restored.defaults + 1]_vars

\* a merge restore has updated a default the target held, whose content was
\* not the snapshot's, and inserted another
C16_Witness ==
    /\ CleanRun("merge")
    /\ result.restored.defaults = 1
    /\ \E i \in DOMAIN Snapshot("defaults") :
          /\ placed.defaults[i] \in Ids(Owned(before, "defaults"))
          /\ \E d \in Owned(before, "defaults") :
                /\ d.id = placed.defaults[i]
                /\ Content("defaults", d) # Content("defaults", Snapshot("defaults")[i])
          /\ \E u \in Owned(db, "defaults") :
                /\ u.id = placed.defaults[i]
                /\ Content("defaults", u) = Content("defaults", Snapshot("defaults")[i])

-----------------------------------------------------------------------------
(* C17 *)

\* C17: a restore request whose mode field is present and is neither merge
\* nor replace is answered with 400, and answering it changes no record of
\* any collection, no archive entry, and starts no restore; a request without
\* mode field starts a restore in merge mode.
C17_InvalidModeRejectedWithoutMutation ==
    [][/\ (/\ requested' \notin {NoMode, "merge", "replace"}
           /\ requested' # requested \/ status' # status)
          => /\ status' = 400
             /\ db' = db
             /\ archive' = archive
             /\ files' = files
             /\ UNCHANGED <<pc, runs, nextId, result>>
       /\ runs' > runs =>
             /\ requested' \in {NoMode, "merge", "replace"}
             /\ status' # 400
             /\ requested' = NoMode => mode' = "merge"
             /\ requested' # NoMode => mode' = requested']_vars

\* a request with mode "overwrite" has been rejected after a restore
C17_Witness ==
    /\ requested = "overwrite"
    /\ status = 400
    /\ pc = "done"
    /\ runs = 1

\* a request without mode has been carried out as a merge
C17_WitnessNoMode ==
    /\ requested = NoMode
    /\ status = 200
    /\ CleanRun("merge")
    /\ result.skipped.clients > 0

-----------------------------------------------------------------------------
(* Vocabulary of the archive properties *)

\* the archive entries of directory d that list gives the caller
Mine(d) ==
    {e \in d : IsBackupFile(e.filename) /\ StartsWith(caller, FileUserId(e.filename))}

\* the capture timestamp list goes by: the header's, or the file system's for
\* an entry without readable header
CaptureTime(e) == IF Readable(e) THEN e.header.backupDate ELSE e.birthtime

\* the sweep has returned
Swept == lpc = "swept" /\ op = "cleanup"

-----------------------------------------------------------------------------
(* C18 *)

\* C18: a sweep cleanup(owner, k) that met no deletion failure and no
\* concurrent change of the directory, on n listed entries of the owner:
\* with n > k it deletes exactly n - k of them and nothing else, returns
\* n - k, and no entry it deleted has a more recent capture timestamp than
\* one of the k it kept; with n <= k it deletes nothing and returns 0.
C18_SweepKeepsTheNewest ==
    (Swept /\ mishaps = 0) =>
        LET n == Cardinality(Mine(listed))
            gone == listed \ files
        IN /\ Len(backups) = n
           /\ files \subseteq listed
           /\ IF n > keepCount
              THEN /\ deletedCount = n - keepCount
                   /\ Cardinality(gone) = n - keepCount
                   /\ gone \subseteq Mine(listed)
                   /\ Cardinality(Mine(files)) = keepCount
                   /\ \A kept \in Mine(files), lost \in gone :
                         CaptureTime(kept) >= CaptureTime(lost)
              ELSE /\ deletedCount = 0
                   /\ gone = {}

\* a sweep with k = 1 over three entries has kept one that is not the last by
\* name, and deleted an entry without readable header
C18_Witness ==
    /\ Swept
    /\ mishaps = 0
    /\ keepCount = 1
    /\ Cardinality(Mine(listed)) = 3
    /\ \E kept \in Mine(files), lost \in listed \ files :
          kept.filename.parts[3] < lost.filename.parts[3]
    /\ \E lost \in listed \ files : ~Readable(lost)

\* a sweep has found no more entries than it is to keep
C18_WitnessNothingToDelete ==
    /\ Swept
    /\ mishaps = 0
    /\ Cardinality(Mine(listed)) = keepCount

-----------------------------------------------------------------------------
(* C19 *)

\* the names of the first k items of a listing
NewestNames(bs, k) == {bs[i].filename : i \in {j \in DOMAIN bs : j <= k}}

\* the names of the items behind the first k
OlderNames(bs, k) == {bs[i].filename : i \in {j \in DOMAIN bs : j > k}}

\* C19: every iteration of the sweep's deletion loop, whether its deletion
\* succeeds or fails, goes on to the next entry; the count goes up exactly
\* when the iteration removes its entry; when the sweep returns it has tried
\* every entry behind the newest keepCount, and it never tries one of the
\* newest keepCount.
C19_SweepSurvivesDeletionFailure ==
    [][/\ (lpc = "deleting" /\ li' # li) =>
             LET toDelete == Slice(backups, keepCount)
             IN /\ unlinked' = unlinked \cup {toDelete[li].filename}
                /\ files' \subseteq files
                /\ \A e \in files \ files' : e.filename = toDelete[li].filename
                /\ deletedCount' = deletedCount + Cardinality(files \ files')
                /\ lpc' = IF li < Len(toDelete) THEN "deleting" ELSE "swept"
       /\ (lpc = "deleting" /\ lpc' = "swept") =>
             unlinked' = OlderNames(backups, keepCount)
       /\ unlinked' \cap NewestNames(backups', keepCount') = {}]_vars

\* a sweep has returned 1 after its first deletion failed and the entry is
\* still there
C19_Witness ==
    /\ Swept
    /\ mishaps = 1
    /\ deletedCount = 1
    /\ Cardinality(unlinked) = 2
    /\ \E e \in files : e.filename = Slice(backups, keepCount)[1].filename

-----------------------------------------------------------------------------
(* C20 *)

\* listUserBackups has returned (to its caller or to cleanupOldBackups)
ListingDone == lpc \in {"listed", "deleting", "swept"}

\* the items of the listing that carry an entry's name
ItemsOf(e) == {i \in DOMAIN backups : backups[i].filename = e.filename}

\* C20 as claimed: every entry of the directory that matches the naming
\* pattern and the caller appears in the result of list, with its header's
\* metadata or, when it could not be read, with degraded metadata; it is never
\* left out, also when it is removed or becomes unreadable while list runs.
C20_EveryMatchingEntryListed ==
    ListingDone =>
        \A e \in Mine(listed) :
            \E i \in ItemsOf(e) : backups[i] \in {Metadata(e), BasicMetadata(e)}

\* C20 as amended: every entry of the directory that matches the naming
\* pattern and the caller, and is still there when list comes to it, appears
\* in the result exactly once: with degraded metadata (file system timestamp,
\* all counts zero) when it cannot be read then, with its header's metadata
\* otherwise.  An entry removed between the directory read and its turn is
\* left out, and nothing else is listed.
C20_EntryListedUnlessStatFails ==
    ListingDone =>
        /\ \A e \in Mine(listed) :
              IF e.filename \in missed
              THEN ItemsOf(e) = {} /\ e \notin files
              ELSE /\ Cardinality(ItemsOf(e)) = 1
                   /\ \A i \in ItemsOf(e) :
                         /\ backups[i] \in {Metadata(e), BasicMetadata(e)}
                         /\ ~Readable(e) => backups[i] = BasicMetadata(e)
                         /\ backups[i] = BasicMetadata(e) =>
                               /\ backups[i].backupDate = e.birthtime
                               /\ backups[i].dataCounts = NoCounts
                               /\ ~Readable(e) \/ mishaps > 0
        /\ \A i \in DOMAIN backups : \E e \in Mine(listed) : i \in ItemsOf(e)
        /\ missed \subseteq {e.filename : e \in listed \ files}

\* list has returned a degraded item for an unreadable entry and an item with
\* header metadata, and has left out an entry removed while it ran
C20_Witness ==
    /\ lpc = "listed"
    /\ \E e \in Mine(listed) : e.filename \in missed
    /\ \E e \in Mine(listed) :
          ~Readable(e) /\ \E i \in ItemsOf(e) : backups[i] = BasicMetadata(e)
    /\ \E e \in Mine(listed) :
          Readable(e) /\ \E i \in ItemsOf(e) : backups[i] = Metadata(e)

\* list has returned a degraded item for an entry that became unreadable
\* while it ran
C20_WitnessDamaged ==
    /\ lpc = "listed"
    /\ \E e \in Mine(listed) :
          Readable(e) /\ \E i \in ItemsOf(e) : backups[i] = BasicMetadata(e)

-----------------------------------------------------------------------------
(* C21 *)

\* the entries of directory d that an owner other than the caller captured
CapturedByOthers(d) == {e \in d : Readable(e) /\ e.header.userId # caller}

\* C21: for two distinct owners A and B, an entry captured by B never appears
\* in list(A), and A's retention sweep never deletes an entry captured by B
\* (the restore, details, download and delete routes take the entry they act
\* on from list(A)).
C21_OperationsStayWithTheCaller ==
    /\ ListingDone =>
          \A e \in CapturedByOthers(listed) : ItemsOf(e) = {}
    /\ \A e \in CapturedByOthers(listed) : e.filename \notin unlinked

-----------------------------------------------------------------------------
(* C22 *)

\* collectUserData has returned
Captured == cpc \in {"captured", "written", "read"}

\* C22: every snapshot produced by capture has header counts equal to the
\* sizes of its own payload collections for clients, invoices, documents,
\* statements and defaults, and a preferences count of 1 when the payload
\* holds a preferences record and 0 otherwise, also when other requests write
\* to the owner's collections while the six fetches are in progress.
C22_CountsAreThePayloadSizes ==
    Captured =>
        LET counts == captured.metadata.dataCounts
            data == captured.data
        IN /\ counts.clients = Len(data.clients)
           /\ counts.invoices = Len(data.invoices)
           /\ counts.documents = Len(data.documents)
           /\ counts.statements = Len(data.statements)
           /\ counts.defaults = Len(data.defaults)
           /\ counts.preferences = IF data.preferences # <<>> THEN 1 ELSE 0

\* a capture has returned a snapshot that is neither what the store held
\* when it began nor what the store holds now: a write came between two of
\* its fetches, which both found records
C22_Witness ==
    /\ Captured
    /\ writes > 0
    /\ captured # CollectUserData(db, capturing)
    /\ captured # CollectUserData(before, capturing)
    /\ captured.metadata.dataCounts.clients > 0
    /\ captured.metadata.dataCounts.defaults > 0

-----------------------------------------------------------------------------
(* C23 *)

\* C23: for every snapshot, reading back what was written gives the same
\* snapshot, deserialize(serialize(s)) = s: the snapshot read from the entry
\* has the same header and the same records, with the same field values, as
\* the snapshot capture produced.
C23_ReadBackIsWhatWasCaptured ==
    cpc = "read" => parsed = InMemory(captured)

-----------------------------------------------------------------------------
(* C24 *)

\* the last request has been answered
Answered == status # 0

\* the reasons for which a request fails before there is a restore result
RequestFailures ==
    {"Unauthorized", "Request body is required", "Invalid JSON in request body",
     "Backup filename is required", "Mode must be either merge or replace",
     "Backup not found", "Failed to restore backup"}

\* C24: the restore route answers with status 200 and the result object
\* whenever the restore result has success = true, also when its errors list
\* is not empty; it answers with another status only when the result has
\* success = false (500, with the result) or when the request itself failed
\* and no result exists (no identity 401, invalid body 400, unknown archive
\* 404, unreadable archive 500).
C24_SuccessAnswersOkWithResult ==
    Answered =>
        IF refused = ""
        THEN /\ pc = "done"
             /\ body.result = <<result>>
             /\ result.success => status = 200 /\ body.key = "message"
             /\ ~result.success => status = 500 /\ body.key = "error"
        ELSE /\ refused \in RequestFailures
             /\ status \in {400, 401, 404, 500}
             /\ body = NoBody
             /\ refused = "Unauthorized" <=> status = 401
             /\ refused = "Backup not found" <=> status = 404
             /\ refused = "Failed to restore backup" <=> status = 500

\* a restore whose result lists an error and has success = true has been
\* answered with 200 and that result
C24_Witness ==
    /\ status = 200
    /\ refused = ""
    /\ result.success
    /\ result.errors # <<>>
    /\ body.result = <<result>>

\* a restore whose bulk deletion failed has been answered with 500 and the
\* result
C24_WitnessFailed ==
    /\ status = 500
    /\ refused = ""
    /\ ~result.success
    /\ body.result = <<result>>

\* a request for an entry that cannot be read has been answered with 500
\* after a restore that succeeded
C24_WitnessUnreadable ==
    /\ status = 500
    /\ refused = "Failed to restore backup"
    /\ result.success
    /\ runs = 1

-----------------------------------------------------------------------------
(* C25 *)

\* the kinds whose records the result counts as restored, skipped or failed
CountedKinds == {"clients", "invoices", "statements", "documents"}

\* C25: two restore invocations whose steps interleave share no mutable
\* state.  Of the invocation that is running: every mapping of its remap
\* table and of its client-email map was assigned by itself, for a record of
\* its own snapshot that it has processed; its counters and errors account
\* for exactly the records it has processed; and when both invocations are
\* in replace mode, no identifier is mapped to the same value in both tables.
C25_InvocationsShareNoState ==
    /\ \A old \in DOMAIN mapper :
          \E kind \in {"clients", "invoices"} :
             \E i \in 1..Processed(kind) :
                /\ Snapshot(kind)[i].id = old
                /\ placed[kind][i] = mapper[old]
    /\ \A email \in DOMAIN emailToIdMap :
          \E i \in 1..Processed("clients") :
             /\ ToLowerCase(Snapshot("clients")[i].email) = email
             /\ placed.clients[i] = emailToIdMap[email]
    /\ \A kind \in {"clients", "invoices"} :
          \A i \in 1..Processed(kind) :
             placed[kind][i] # NoId => MapperHas(mapper, Snapshot(kind)[i].id)
    /\ result.success => \A kind \in CountedKinds : Accounted(kind) = Processed(kind)
    /\ (mode = "replace" /\ other.mode = "replace") =>
          \A old \in DOMAIN mapper \cap DOMAIN other.mapper :
             mapper[old] # other.mapper[old]

\* two replace restores of the same snapshot have both returned, the steps of
\* one between steps of the other, each with its own mappings and counts
C25_Witness ==
    /\ pc = "done"
    /\ other.pc = "done"
    /\ mode = "replace"
    /\ other.mode = "replace"
    /\ DOMAIN mapper = DOMAIN other.mapper
    /\ mapper # <<>>
    /\ result.restored.clients = 1
    /\ other.result.restored.clients = 1
    /\ placed.clients[1] < other.placed.clients[1]
    /\ other.placed.clients[1] < placed.invoices[1]

-----------------------------------------------------------------------------
(* C26 *)

\* every counter of a result is 0
NothingCounted(r) ==
    /\ \A kind \in DOMAIN r.restored : r.restored[kind] = 0
    /\ \A kind \in DOMAIN r.skipped : r.skipped[kind] = 0

\* C26: when the bulk deletion of replace mode raises an exception, restore
\* returns at once with success = false, exactly one message in errors and
\* every restored and skipped counter 0; no record is inserted or updated by
\* that step (records are only removed, by the deletions that did not fail),
\* and none afterwards until another restore is requested.
C26_FailedDeletionAborts ==
    [][/\ (pc = "deleting" /\ failures' > failures) =>
             /\ pc' = "done"
             /\ ~result'.success
             /\ Len(result'.errors) = 1
             /\ NothingCounted(result')
             /\ \A c \in Collections : db'[c] \subseteq db[c]
             /\ nextId' = nextId
             /\ placed' = NoPlaced(backupData)
       /\ (~result.success /\ runs' = runs) =>
             /\ db' = db
             /\ result' = result
             /\ pc' = "done"]_vars

\* a replace restore of a snapshot with records has returned after one of its
\* deletions failed and others removed records of the target
C26_Witness ==
    /\ pc = "done"
    /\ mode = "replace"
    /\ ~result.success
    /\ db # before
    /\ \E kind \in Kinds : Owned(before, kind) # {} /\ Owned(db, kind) = Owned(before, kind)
    /\ \E kind \in Kinds : Len(Snapshot(kind)) > 0

-----------------------------------------------------------------------------
(* C27 *)

\* the messages in errors that restore pushed for records of a kind
ErrorsOf(kind) ==
    Cardinality({n \in DOMAIN result.errors : result.errors[n] = ErrorOf(kind)})

\* C27: when a restore returns with success = true, each snapshot record is
\* accounted for exactly once: for clients and for invoices, restored +
\* skipped + the error messages of that kind is the number of snapshot records
\* of that kind; for statements and documents, restored + the errors of that
\* kind is the snapshot count; in replace mode every skipped counter is 0.
C27_EveryRecordAccountedOnce ==
    (pc = "done" /\ runs > 0 /\ result.success) =>
        /\ \A kind \in {"clients", "invoices"} :
              result.restored[kind] + result.skipped[kind] + ErrorsOf(kind)
                 = Len(Snapshot(kind))
        /\ \A kind \in {"statements", "documents"} :
              result.restored[kind] + ErrorsOf(kind) = Len(Snapshot(kind))
        /\ mode = "replace" =>
              \A kind \in DOMAIN result.skipped : result.skipped[kind] = 0

\* a merge restore has returned with success having restored a client,
\* skipped a client and an invoice and failed on an invoice, with statements
\* and documents in the snapshot
C27_Witness ==
    /\ pc = "done"
    /\ runs > 0
    /\ mode = "merge"
    /\ result.success
    /\ result.skipped.clients > 0
    /\ result.skipped.invoices > 0
    /\ result.restored.clients > 0
    /\ ErrorsOf("invoices") > 0
    /\ Len(Snapshot("statements")) > 0
    /\ Len(Snapshot("documents")) > 0

\* a replace restore has returned with success onto a target that held a
\* client with the e-mail address of a snapshot client
C27_WitnessReplace ==
    /\ pc = "done"
    /\ runs > 0
    /\ mode = "replace"
    /\ result.success
    /\ \E i \in DOMAIN Snapshot("clients") :
          \E r \in Owned(before, "clients") :
             r.email = ToLowerCase(Snapshot("clients")[i].email)
    /\ result.restored.clients > 0

-----------------------------------------------------------------------------
(* C28 *)

\* the records of store d that the target owner does not own
OthersRecords(d, c) == {r \in d[c] : r.userId # targetUserId}

\* C28: restore never touches another owner's data: in either mode, and
\* whatever the snapshot contains, no step of a restore deletes or modifies a
\* record whose owner is not the target owner, none inserts a record with an
\* owner other than the target, and the lookups of merge mode never match a
\* record owned by someone else: the record a snapshot record is skipped for
\* or updated in place of, and every identifier newly put in the remap table
\* or the client-email map, is a record of the target owner.
C28_OtherOwnersUntouched ==
    [][(pc \in Kinds \/ pc = "deleting") =>
          /\ \A c \in Collections :
                /\ OthersRecords(db, c) \subseteq db'[c]
                /\ \A r \in db'[c] \ db[c] : r.userId = targetUserId
          /\ pc \in Kinds =>
                \A i \in DOMAIN Snapshot(pc) :
                   (placed'[pc][i] # placed[pc][i]) =>
                      placed'[pc][i] \in Ids(Owned(db', pc))
          /\ \A k \in DOMAIN mapper' :
                (k \notin DOMAIN mapper \/ mapper[k] # mapper'[k]) =>
                   mapper'[k] \in Ids(Owned(db', "clients")) \cup Ids(Owned(db', "invoices"))
          /\ \A k \in DOMAIN emailToIdMap' :
                (k \notin DOMAIN emailToIdMap \/ emailToIdMap[k] # emailToIdMap'[k]) =>
                   emailToIdMap'[k] \in Ids(Owned(db', "clients"))]_vars

\* a merge restore has returned having inserted an invoice whose number the
\* target did not hold while another owner holds an invoice with that number,
\* and all the records of the other owners are as they were
C28_Witness ==
    /\ pc = "done"
    /\ mode = "merge"
    /\ \E i \in DOMAIN Snapshot("invoices") :
          /\ placed.invoices[i] # NoId
          /\ placed.invoices[i] \notin Ids(before.invoices)
          /\ Snapshot("invoices")[i].invoiceNumber # ""
          /\ \E r \in OthersRecords(before, "invoices") :
                r.invoiceNumber = Snapshot("invoices")[i].invoiceNumber
    /\ \A c \in Collections :
          /\ OthersRecords(before, c) # {}
          /\ OthersRecords(before, c) = OthersRecords(db, c)

\* a replace restore has returned with success onto a target that held
\* records of every kind, beside another owner's records of every kind
C28_WitnessReplace ==
    /\ pc = "done"
    /\ mode = "replace"
    /\ result.success
    /\ \A kind \in Kinds :
          /\ Owned(before, kind) # {}
          /\ Ids(Owned(before, kind)) \cap Ids(db[CollectionOf(kind)]) = {}
    /\ \A c \in Collections :
          /\ OthersRecords(before, c) # {}
          /\ OthersRecords(before, c) = OthersRecords(db, c)

-----------------------------------------------------------------------------
(* C29 *)

\* the kinds a merge restore only adds to
AddedOnlyKinds == {"clients", "invoices", "statements", "documents"}

\* C29: a merge-mode restore only adds new data and skips duplicates for
\* clients, invoices, statements and documents: every record of these four
\* kinds that the target owned before the restore is still present and
\* unchanged at every point of the restore and after it, so the owner's
\* record count of each of these kinds never decreases.
C29_MergeOnlyAdds ==
    (runs > 0 /\ mode = "merge") =>
        \A kind \in AddedOnlyKinds :
           /\ Owned(before, kind) \subseteq Owned(db, kind)
           /\ Cardinality(Owned(db, kind)) >= Cardinality(Owned(before, kind))

\* a merge restore has returned having skipped a client whose address the
\* target held in another spelling and inserted another
C29_Witness ==
    /\ pc = "done"
    /\ mode = "merge"
    /\ result.skipped.clients > 0
    /\ result.restored.clients > 0
    /\ \E i \in DOMAIN Snapshot("clients") :
          \E r \in Owned(before, "clients") :
             /\ placed.clients[i] = r.id
             /\ r.email # Snapshot("clients")[i].email

\* a merge restore has returned onto a target that held records of the four
\* kinds, having inserted a statement and a document
C29_WitnessInserted ==
    /\ pc = "done"
    /\ mode = "merge"
    /\ \A kind \in AddedOnlyKinds : Owned(before, kind) # {}
    /\ result.restored.statements > 0
    /\ result.restored.documents > 0

-----------------------------------------------------------------------------
(* C30 *)

\* the kinds whose records restore enters in the remap table
MappedKinds == {"clients", "invoices"}

\* every value of the remap table and of the client-email map is a live
\* client or invoice of the target owner
MapsPointAtLiveRecords ==
    /\ \A k \in DOMAIN mapper :
          mapper[k] \in Ids(Owned(db, "clients")) \cup Ids(Owned(db, "invoices"))
    /\ \A k \in DOMAIN emailToIdMap :
          emailToIdMap[k] \in Ids(Owned(db, "clients"))

\* every client and invoice gone past without error has an entry
ProcessedAreMapped ==
    /\ \A kind \in MappedKinds :
          \A i \in 1..Processed(kind) :
             placed[kind][i] # NoId => MapperHas(mapper, Snapshot(kind)[i].id)
    /\ \A i \in 1..Processed("clients") :
          placed.clients[i] # NoId =>
             ToLowerCase(Snapshot("clients")[i].email) \in DOMAIN emailToIdMap

\* C30: at every point of a restore with no concurrent writer, every value
\* held in the remap table and in the client-email map is the identifier of a
\* live client or invoice owned by the target owner, and every snapshot
\* client and invoice processed so far without error has an entry; a record
\* whose processing failed has no entry created by that failure.
C30_MapsHoldLiveRecordsOfProcessed ==
    [][/\ MapsPointAtLiveRecords'
       /\ ProcessedAreMapped'
       /\ (pc \in Kinds /\ failures' > failures) =>
             /\ mapper' = mapper
             /\ emailToIdMap' = emailToIdMap]_vars

\* a restore is past its clients and invoices: one client failed and has no
\* entry, another client and an invoice were processed and have theirs
C30_Witness ==
    /\ pc \in Kinds \cup {"done"}
    /\ Processed("invoices") = Len(Snapshot("invoices"))
    /\ \E i, j \in DOMAIN Snapshot("clients") :
          /\ placed.clients[i] = NoId
          /\ ~MapperHas(mapper, Snapshot("clients")[i].id)
          /\ placed.clients[j] # NoId
          /\ mapper[Snapshot("clients")[j].id] = placed.clients[j]
          /\ emailToIdMap[ToLowerCase(Snapshot("clients")[j].email)] = placed.clients[j]
    /\ \E i \in DOMAIN Snapshot("invoices") :
          /\ placed.invoices[i] # NoId
          /\ mapper[Snapshot("invoices")[i].id] = placed.invoices[i]

\* a merge restore has mapped a snapshot client to the client the target
\* already held
C30_WitnessSkipped ==
    /\ mode = "merge"
    /\ \E i \in DOMAIN Snapshot("clients") :
          /\ placed.clients[i] \in Ids(Owned(before, "clients"))
          /\ mapper[Snapshot("clients")[i].id] = placed.clients[i]

=============================================================================
